---- MODULE Spec2Model ----
(***************************************************************************)
(* Rich-text formatting engine of py_word_pro: the Tk Text widget's text   *)
(* and tag ranges, FormatManager (src/src/logic/formatting.py), the        *)
(* undo/redo dispatch of App (src/src/app.py) and the native codec of      *)
(* FileManager (src/src/logic/file_manager.py).                            *)
(*                                                                         *)
(* The widget is modelled as a sequence of characters, each with the set   *)
(* of tag names it carries; the last element is the trailing newline the   *)
(* widget always keeps.  A tag range of the widget is a maximal run of     *)
(* characters carrying the tag.  Offsets are 0-based; a widget index       *)
(* "line.col" is the pair <<line, col>>.                                   *)
(***************************************************************************)
EXTENDS Integers, Sequences, FiniteSets, TLC

VARIABLES
    doc,            \* editor: characters with their tags, trailing newline last
    caret,          \* editor: offset of the insert mark
    tagNames,       \* editor: every tag ever named, lowest priority first
    textUndo,       \* editor: the widget's own undo stack (text edits)
    textRedo,       \* editor: the widget's own redo stack
    spacing,        \* editor: -spacing3 option, in pixels
    styleMeta,      \* FormatManager._style_meta (same keys as _style_fonts)
    typingSpec,     \* FormatManager._typing_spec (NoSpec when None)
    typingEnabled,  \* FormatManager._typing_enabled
    defaultFont,    \* FormatManager.default_font
    defaultSize,    \* FormatManager.default_size
    fmtUndo,        \* FormatManager._fmt_undo_stack
    fmtRedo,        \* FormatManager._fmt_redo_stack
    lastActionKind, \* FormatManager._last_action_kind
    lastUndoKind,   \* FormatManager._last_undo_kind ("none" when None)
    idleQ,          \* pending after_idle callbacks: the captured insert index
    file,           \* the .pwp payload on disk (NoFile when none was saved)
    currentFilePath, \* FileManager.current_file_path ("none" when None)
    openedFromPdf,  \* FileManager._opened_from_pdf
    dialog,         \* the message box the last open_file ended with
    docx,           \* the .docx document on disk (NoDocx when none was saved)
    txtFile,        \* the text file on disk (NoText when none was written)
    pdfFile,        \* the PDF file on disk
    threads,        \* background threads that have been started and not ended
    consoleQueue,   \* DeveloperEngine.console_queue
    console,        \* the text chunks written to the console widget
    spoken,         \* the texts handed to the speech engine
    last,           \* the command that changed the document or the history last
    pre             \* right after a formatting command: what it started from

vars == <<doc, caret, tagNames, textUndo, textRedo, spacing, styleMeta,
          typingSpec, typingEnabled, defaultFont, defaultSize, fmtUndo,
          fmtRedo, lastActionKind, lastUndoKind, idleQ, file, currentFilePath,
          openedFromPdf, dialog, docx, txtFile, pdfFile, threads, consoleQueue,
          console, spoken, last, pre>>

edVars == <<doc, caret, tagNames, textUndo, textRedo, spacing>>
fmVars == <<styleMeta, typingSpec, typingEnabled, defaultFont, defaultSize>>
histVars == <<fmtUndo, fmtRedo, lastActionKind, lastUndoKind>>
fmgrVars == <<file, currentFilePath, openedFromPdf, dialog, docx, txtFile, pdfFile>>
bgVars == <<threads, consoleQueue, console, spoken>>

\* ------------------------------------------------------------------ bounds
MaxLen == 1         \* Spec: characters of text
MaxHist == 1        \* Spec: entries of the formatting undo stack
MaxIdle == 1        \* Spec: queued idle callbacks

\* ------------------------------------------------------- program constants
STYLE_TAG_PREFIX == "pw_fontstyle_"
COLOR_FG_TAG_PREFIX == "color_fg_"
COLOR_BG_TAG_PREFIX == "color_bg_"
InitDefaultFont == "Calibri"
InitDefaultSize == 11
LinePx == 14
PwpVersion == 1

NoSpec == [none |-> TRUE]
NoFile == [none |-> TRUE]
NoDocx == <<[none |-> TRUE]>>
NoText == <<"none">>
\* a PDF document written by another program
SomePdf == [format |-> "pdf", by |-> "other"]

Min(a, b) == IF a < b THEN a ELSE b
Max(a, b) == IF a > b THEN a ELSE b

\* -------------------------------------------------------------- tag names
\* A combined-style tag name encodes family, base size and the four flags.
StyleTagName(family, size, b, italic, underline, overstrike) ==
    <<STYLE_TAG_PREFIX, family, size, b, italic, underline, overstrike>>

ColorTagName(mode, color) ==
    <<IF mode = "fg" THEN COLOR_FG_TAG_PREFIX ELSE COLOR_BG_TAG_PREFIX, color>>

AlignTagName(align) == <<"justify", align>>

IsStyleTag(t) == t[1] = STYLE_TAG_PREFIX
IsFgTag(t) == t[1] = COLOR_FG_TAG_PREFIX
IsBgTag(t) == t[1] = COLOR_BG_TAG_PREFIX
IsAlignTag(t) == t[1] = "justify"

AlignNames == <<"left", "center", "right">>

\* ---------------------------------------------------------- widget: index
EmptyDoc == << [ch |-> "\n", tags |-> {}] >>

TextLen(d) == Len(d) - 1

IsNL(d, p) == d[p + 1].ch = "\n"

NLBefore(d, p) == Cardinality({q \in 0..(p - 1) : IsNL(d, q)})

NumLines(d) == NLBefore(d, Len(d))

LineEnd(d, l) ==
    CHOOSE q \in 0..(Len(d) - 1) : IsNL(d, q) /\ NLBefore(d, q) = l - 1

LineStart(d, l) == IF l <= 1 THEN 0 ELSE LineEnd(d, l - 1) + 1

\* editor.index / index resolution: a line past the last one is "end", a
\* column past the line's end is the line's end.
Pos(d, ix) ==
    IF ix[1] > NumLines(d) THEN Len(d)
    ELSE IF ix[1] < 1 THEN 0
    ELSE Min(LineStart(d, ix[1]) + ix[2], LineEnd(d, ix[1]))

Index(d, p) ==
    IF p >= Len(d) THEN <<NumLines(d) + 1, 0>>
    ELSE LET l == NLBefore(d, p) + 1 IN <<l, p - LineStart(d, l)>>

TextOf(d) == [k \in 1..TextLen(d) |-> d[k].ch]

\* ----------------------------------------------------------- widget: tags
TagsAt(d, p) == IF p < Len(d) THEN d[p + 1].tags ELSE {}

\* editor.tag_names(index): the tags on the character, lowest priority first
TagNamesAt(d, names, p) == SelectSeq(names, LAMBDA t : t \in TagsAt(d, p))

\* editor.tag_add(tag, a, b) on offsets
TagAdd(d, t, a, b) ==
    [k \in 1..Len(d) |->
        IF a <= k - 1 /\ k - 1 < b THEN [d[k] EXCEPT !.tags = @ \cup {t}]
        ELSE d[k]]

\* editor.tag_remove for every tag of the set ts, on offsets
TagRemoveAll(d, ts, a, b) ==
    [k \in 1..Len(d) |->
        IF a <= k - 1 /\ k - 1 < b THEN [d[k] EXCEPT !.tags = @ \ ts]
        ELSE d[k]]

SeqToSet(s) == {s[k] : k \in 1..Len(s)}

\* Naming a tag in a widget command defines it, with the highest priority.
\* The program only ever compares the priorities of two tags of the same
\* kind (two combined styles, two foreground colours, two background
\* colours), so the sequence keeps the kinds grouped, each group in the
\* order in which its tags were defined.
KindRank(t) ==
    IF IsStyleTag(t) THEN 1 ELSE IF IsFgTag(t) THEN 2
    ELSE IF IsBgTag(t) THEN 3 ELSE 4

DefineTag(names, t) ==
    IF t \in SeqToSet(names) THEN names
    ELSE SelectSeq(names, LAMBDA x : KindRank(x) <= KindRank(t)) \o <<t>>
         \o SelectSeq(names, LAMBDA x : KindRank(x) > KindRank(t))

\* editor.tag_ranges(tag) clipped to [a, b): maximal runs, as offset pairs
TagRuns(d, t, a, b) ==
    {r \in (a..b) \X (a..b) :
        /\ r[1] < r[2]
        /\ \A p \in r[1]..(r[2] - 1) : t \in TagsAt(d, p)
        /\ (r[1] = a \/ t \notin TagsAt(d, r[1] - 1))
        /\ (r[2] = b \/ t \notin TagsAt(d, r[2]))}

\* ----------------------------------------------------------- widget: text
\* Text inserted with no tag list receives the tags present on both the
\* character before and the character after the insertion point.
InsertAt(d, p, chs) ==
    LET inherit == IF p = 0 THEN {} ELSE TagsAt(d, p - 1) \cap TagsAt(d, p)
        new == [k \in 1..Len(chs) |-> [ch |-> chs[k], tags |-> inherit]]
    IN SubSeq(d, 1, p) \o new \o SubSeq(d, p + 1, Len(d))

\* editor.delete(a, b): the trailing newline is never deleted
DeleteRange(d, a, b) ==
    LET e == Min(b, Len(d) - 1)
    IN IF a >= e THEN d ELSE SubSeq(d, 1, a) \o SubSeq(d, e + 1, Len(d))

\* ------------------------------------------------- FormatManager: resolver
MkSpec(family, size, b, i, u, o) ==
    [family |-> family, size |-> size, b |-> b, i |-> i, u |-> u, o |-> o]

\* The ambient default: (default_font, default_size, all flags off).
\* dflt is the pair <<default_font, default_size>>.
DefaultSpec(dflt) == MkSpec(dflt[1], dflt[2], FALSE, FALSE, FALSE, FALSE)

TagOfSpec(spec) ==
    StyleTagName(spec.family, spec.size, spec.b, spec.i, spec.u, spec.o)

\* st is the triple of the widget's characters, the widget's tag names and
\* the manager's style metadata: [doc, names, meta].
GetEffectiveSpecAt(st, dflt, p) ==
    LET known == SelectSeq(TagNamesAt(st.doc, st.names, p),
                           LAMBDA t : IsStyleTag(t) /\ t \in DOMAIN st.meta)
    IN IF known # <<>> THEN st.meta[known[1]] ELSE DefaultSpec(dflt)

IsDefaultSpec(spec, dflt) ==
    /\ spec.family = dflt[1]
    /\ spec.size = dflt[2]
    /\ ~spec.b /\ ~spec.i /\ ~spec.u /\ ~spec.o

EnsureStyleTag(st, spec) ==
    LET name == TagOfSpec(spec)
    IN IF name \in DOMAIN st.meta THEN st
       ELSE [st EXCEPT !.meta = [t \in DOMAIN st.meta \cup {name} |->
                                    IF t = name THEN spec ELSE st.meta[t]],
                       !.names = DefineTag(st.names, name)]

StyleTagsOf(names) == {t \in SeqToSet(names) : IsStyleTag(t)}

RemoveStyleTagsInRange(st, s, e) ==
    [st EXCEPT !.doc = TagRemoveAll(st.doc, StyleTagsOf(st.names), s, e)]

ApplySpecToRange(st, spec, s, e) ==
    LET st1 == EnsureStyleTag(st, spec)
        st2 == RemoveStyleTagsInRange(st1, s, e)
    IN [st2 EXCEPT !.doc = TagAdd(st2.doc, TagOfSpec(spec), s, e)]

\* ---------------------------------------------- FormatManager: segmentation
RECURSIVE SortedSeq(_)
SortedSeq(S) ==
    IF S = {} THEN <<>>
    ELSE LET m == CHOOSE x \in S : \A y \in S : x <= y
         IN <<m>> \o SortedSeq(S \ {m})

\* variant: only the ends of the tag ranges are boundaries
StyleBoundariesTagEndsOnly(st, s, e) ==
    SortedSeq(UNION {{r[1], r[2]} : r \in
                UNION {TagRuns(st.doc, t, s, e) : t \in StyleTagsOf(st.names)}})

StyleBoundariesInRange(st, s, e) ==
    SortedSeq({s, e} \cup
        UNION {{r[1], r[2]} : r \in
                UNION {TagRuns(st.doc, t, s, e) : t \in StyleTagsOf(st.names)}})

IterStyleSegments(st, dflt, s, e) ==
    LET bounds == StyleBoundariesInRange(st, s, e)
        all == [k \in 1..(Len(bounds) - 1) |->
                  [s |-> bounds[k], e |-> bounds[k + 1],
                   spec |-> GetEffectiveSpecAt(st, dflt, bounds[k])]]
    IN SelectSeq(all, LAMBDA g : g.s < g.e)

\* ------------------------------------------------- FormatManager: snapshots
\* variant: the snapshot of a tag is always empty
SnapshotTagRangesNone(d, t, s, e) == {}

SnapshotTagRanges(d, t, s, e) ==
    {<<t, Index(d, r[1]), Index(d, r[2])>> : r \in TagRuns(d, t, s, e)}

SnapshotStyleRanges(st, s, e) ==
    UNION {SnapshotTagRanges(st.doc, t, s, e) : t \in StyleTagsOf(st.names)}

RECURSIVE AddRanges(_, _)
AddRanges(st, snap) ==
    IF snap = {} THEN st
    ELSE LET r == CHOOSE x \in snap : TRUE
         IN AddRanges([st EXCEPT
                 !.doc = TagAdd(st.doc, r[1], Pos(st.doc, r[2]), Pos(st.doc, r[3])),
                 !.names = DefineTag(st.names, r[1])], snap \ {r})

\* the _restore closure of toggle_format / apply_font_family / apply_font_size
RestoreStyle(st, sIx, eIx, snapshot) ==
    AddRanges(RemoveStyleTagsInRange(st, Pos(st.doc, sIx), Pos(st.doc, eIx)),
              snapshot)

\* --------------------------------------------- FormatManager: undo records
\* One entry of _fmt_undo_stack / _fmt_redo_stack: the data the two closures
\* of the entry capture.  kind is the command that pushed it.
\*   style: s, e, before, after            (toggle_format, font family/size)
\*   color: tags = {tag}, s, e, before, after
\*   clear: tags = tag_names() at the time, s, e, before
\*   align: lines, before = {<<line, previous alignment>>}, align
FmtRecord(kind, s, e, tags, before, after, lines, align) ==
    [kind |-> kind, s |-> s, e |-> e, tags |-> tags, before |-> before,
     after |-> after, lines |-> lines, align |-> align]

\* the _restore closure of _apply_color and clear_formatting
RestoreTags(st, tags, sIx, eIx, ranges) ==
    AddRanges([st EXCEPT !.doc = TagRemoveAll(st.doc, tags,
                                   Pos(st.doc, sIx), Pos(st.doc, eIx))],
              ranges)

AlignTags == {AlignTagName(AlignNames[k]) : k \in 1..Len(AlignNames)}

\* _get_line_align: the first of left, center, right on column 0 of the line
GetLineAlign(d, ln) ==
    LET tags == TagsAt(d, Pos(d, <<ln, 0>>))
        hits == SelectSeq(AlignNames, LAMBDA a : AlignTagName(a) \in tags)
    IN IF hits # <<>> THEN hits[1] ELSE "none"

RECURSIVE DefineTags(_, _)
DefineTags(names, ts) ==
    IF ts = <<>> THEN names ELSE DefineTags(DefineTag(names, Head(ts)), Tail(ts))

\* variant: the other alignment tags stay on the line
ApplyAlignmentToLineAddsOnly(st, align, ln) ==
    LET a == Pos(st.doc, <<ln, 0>>)
        b == IF a >= Len(st.doc) THEN Len(st.doc)
             ELSE LineEnd(st.doc, NLBefore(st.doc, a) + 1) + 1
        d1 == IF align = "none" THEN TagRemoveAll(st.doc, AlignTags, a, b)
              ELSE st.doc
        d2 == IF align # "none" THEN TagAdd(d1, AlignTagName(align), a, b) ELSE d1
        n1 == DefineTags(st.names,
                 [i \in 1..Len(AlignNames) |-> AlignTagName(AlignNames[i])])
    IN [st EXCEPT !.doc = d2, !.names = n1]

\* _apply_alignment_to_lines for one line: [ln.0, ln.0 lineend+1c)
ApplyAlignmentToLine(st, align, ln) ==
    LET a == Pos(st.doc, <<ln, 0>>)
        b == IF a >= Len(st.doc) THEN Len(st.doc)
             ELSE LineEnd(st.doc, NLBefore(st.doc, a) + 1) + 1
        d1 == TagRemoveAll(st.doc, AlignTags, a, b)
        d2 == IF align # "none" THEN TagAdd(d1, AlignTagName(align), a, b) ELSE d1
        n1 == DefineTags(st.names,
                 [k \in 1..Len(AlignNames) |-> AlignTagName(AlignNames[k])])
    IN [st EXCEPT !.doc = d2, !.names = n1]

RECURSIVE ApplyAlignmentToLines(_, _, _)
ApplyAlignmentToLines(st, align, lineNos) ==
    IF lineNos = <<>> THEN
        IF align # "none"
        THEN [st EXCEPT !.names = DefineTag(st.names, AlignTagName(align))]
        ELSE st
    ELSE LET n == Len(lineNos)
             st1 == ApplyAlignmentToLines(st, align, SubSeq(lineNos, 1, n - 1))
         IN ApplyAlignmentToLine(st1, align, lineNos[n])

RECURSIVE RestoreAlignment(_, _, _)
RestoreAlignment(st, lineNos, before) ==
    IF lineNos = <<>> THEN st
    ELSE LET ln == Head(lineNos)
             prev == (CHOOSE x \in before : x[1] = ln)[2]
         IN RestoreAlignment(ApplyAlignmentToLines(st, prev, <<ln>>),
                             Tail(lineNos), before)

\* variant: undoing a clear restores the combined-style tags only
ApplyUndoClearStyleOnly(st, r) ==
    CASE r.kind = "style" -> RestoreStyle(st, r.s, r.e, r.before)
      [] r.kind = "color" -> RestoreTags(st, r.tags, r.s, r.e, r.before)
      [] r.kind = "clear" ->
            RestoreTags(st, r.tags, r.s, r.e,
                        {x \in r.before : IsStyleTag(x[1])})
      [] r.kind = "align" -> RestoreAlignment(st, r.lines, r.before)

\* action["undo"]() and action["redo"]() of a record
ApplyUndo(st, r) ==
    CASE r.kind = "style" -> RestoreStyle(st, r.s, r.e, r.before)
      [] r.kind = "color" -> RestoreTags(st, r.tags, r.s, r.e, r.before)
      [] r.kind = "clear" -> RestoreTags(st, r.tags, r.s, r.e, r.before)
      [] r.kind = "align" -> RestoreAlignment(st, r.lines, r.before)

ApplyRedo(st, r) ==
    CASE r.kind = "style" -> RestoreStyle(st, r.s, r.e, r.after)
      [] r.kind = "color" -> RestoreTags(st, r.tags, r.s, r.e, r.after)
      [] r.kind = "clear" -> RestoreTags(st, r.tags, r.s, r.e, {})
      [] r.kind = "align" -> ApplyAlignmentToLines(st, r.align, r.lines)

\* variant: the line of the range's end is always covered
EachLineInRangeKeepsLast(d, s, e) ==
    LET sIx == Index(d, s)
        eIx == Index(d, e)
    IN [k \in 1..(Max(sIx[1], eIx[1]) - sIx[1] + 1) |-> sIx[1] + k - 1]

\* _each_line_in_range on two offsets
EachLineInRange(d, s, e) ==
    LET sIx == Index(d, s)
        eIx == Index(d, e)
        eLine == IF eIx[2] = 0 /\ eIx[1] > sIx[1] THEN eIx[1] - 1 ELSE eIx[1]
    IN [k \in 1..(Max(sIx[1], eLine) - sIx[1] + 1) |-> sIx[1] + k - 1]

\* ------------------------------------------ FormatManager: range operations
\* the value of one flag of a spec
FlagOf(spec, tag) ==
    CASE tag = "bold" -> spec.b
      [] tag = "italic" -> spec.i
      [] tag = "underline" -> spec.u
      [] tag = "overstrike" -> spec.o

FlipFlag(spec, tag) ==
    CASE tag = "bold" -> [spec EXCEPT !.b = ~@]
      [] tag = "italic" -> [spec EXCEPT !.i = ~@]
      [] tag = "underline" -> [spec EXCEPT !.u = ~@]
      [] tag = "overstrike" -> [spec EXCEPT !.o = ~@]

\* the loop "for s, e, spec in segments: ... tag_add(tname, s, e)"
RECURSIVE WriteSegments(_, _)
WriteSegments(st, segs) ==
    IF segs = <<>> THEN st
    ELSE LET g == Head(segs)
             st1 == EnsureStyleTag(st, g.spec)
         IN WriteSegments(
                [st1 EXCEPT !.doc = TagAdd(st1.doc, TagOfSpec(g.spec), g.s, g.e)],
                Tail(segs))

\* variant: one new boolean for the whole selection, off only when every
\* segment has the flag
ToggleFormatSelOneBoolean(st, dflt, tag, s, e) ==
    LET segments == IterStyleSegments(st, dflt, s, e)
        allOn == \A k \in 1..Len(segments) : FlagOf(segments[k].spec, tag)
        written == [k \in 1..Len(segments) |->
                      [segments[k] EXCEPT !.spec =
                          IF FlagOf(@, tag) = allOn THEN FlipFlag(@, tag) ELSE @]]
    IN WriteSegments(RemoveStyleTagsInRange(st, s, e), written)

\* toggle_format, selection branch: the widget and metadata afterwards
ToggleFormatSel(st, dflt, tag, s, e) ==
    LET segments == IterStyleSegments(st, dflt, s, e)
        flipped == [k \in 1..Len(segments) |->
                      [segments[k] EXCEPT !.spec = FlipFlag(@, tag)]]
    IN WriteSegments(RemoveStyleTagsInRange(st, s, e), flipped)

\* apply_font_family, selection branch
ApplyFontFamilySel(st, dflt, name, s, e) ==
    LET segments == IterStyleSegments(st, dflt, s, e)
        changed == [k \in 1..Len(segments) |->
                      [segments[k] EXCEPT !.spec.family = name]]
    IN WriteSegments(RemoveStyleTagsInRange(st, s, e), changed)

\* apply_font_size, selection branch
ApplyFontSizeSel(st, dflt, size, s, e) ==
    LET segments == IterStyleSegments(st, dflt, s, e)
        changed == [k \in 1..Len(segments) |->
                      [segments[k] EXCEPT !.spec.size = size]]
    IN WriteSegments(RemoveStyleTagsInRange(st, s, e), changed)

\* the record pushed by the three style commands
StyleRecord(st, stAfter, s, e) ==
    FmtRecord("style", Index(st.doc, s), Index(st.doc, e), {},
              SnapshotStyleRanges(st, s, e), SnapshotStyleRanges(stAfter, s, e),
              <<>>, "none")

\* ------------------------------------------------------ inputs of a session
Flags == {"bold", "italic", "underline", "overstrike"}
Colors == {"#ff0000", "#0000ff"}
Modes == {"fg", "bg"}
\* keys that insert their character; Return has a binding of its own
Keys == {"x", "y"}

\* ------------------------------------------------------------------- state
St == [doc |-> doc, names |-> tagNames, meta |-> styleMeta]
Dflt == <<defaultFont, defaultSize>>

\* the document's formatting state, as a formatting command finds it
NoPre == [none |-> TRUE]
Obs == [doc |-> doc, spacing |-> spacing]

SetSt(st) ==
    /\ doc' = st.doc
    /\ tagNames' = st.names
    /\ styleMeta' = st.meta

\* a selection: sel.first < sel.last, both inside the text
SelRanges == {r \in (0..TextLen(doc)) \X (0..TextLen(doc)) : r[1] < r[2]}

Init ==
    /\ doc = EmptyDoc
    /\ caret = 0
    /\ tagNames = <<>>
    /\ textUndo = <<>>
    /\ textRedo = <<>>
    /\ spacing = 0
    /\ styleMeta = <<>>
    /\ typingSpec = NoSpec
    /\ typingEnabled = FALSE
    /\ defaultFont = InitDefaultFont
    /\ defaultSize = InitDefaultSize
    /\ fmtUndo = <<>>
    /\ fmtRedo = <<>>
    /\ lastActionKind = "text"
    /\ lastUndoKind = "none"
    /\ idleQ = <<>>
    /\ file = NoFile
    /\ currentFilePath = "none"
    /\ openedFromPdf = FALSE
    /\ dialog = "none"
    /\ docx = NoDocx
    /\ txtFile = NoText
    /\ pdfFile = SomePdf
    /\ threads = <<>>
    /\ consoleQueue = <<>>
    /\ console = <<>>
    /\ spoken = <<>>
    /\ last = "init"
    /\ pre = NoPre

\* ------------------------------------------------- undo arbitration helpers
\* variant: a formatting command that leaves _last_undo_kind as it was
NoteFormatActivityKeepsUndoKind(push, rec) ==
    /\ lastActionKind' = "format"
    /\ UNCHANGED lastUndoKind
    /\ IF push
       THEN /\ fmtUndo' = Append(fmtUndo, rec)
            /\ fmtRedo' = <<>>
       ELSE UNCHANGED <<fmtUndo, fmtRedo>>

\* _note_format_activity, and _push_fmt_action(rec) when push
NoteFormatActivity(push, rec) ==
    /\ lastActionKind' = "format"
    /\ lastUndoKind' = "none"
    /\ IF push
       THEN /\ fmtUndo' = Append(fmtUndo, rec)      \* _push_fmt_action
            /\ fmtRedo' = <<>>
       ELSE UNCHANGED <<fmtUndo, fmtRedo>>

\* variant: a text edit that leaves _last_undo_kind as it was
NoteTextActivityKeepsUndoKind ==
    /\ lastActionKind' = "text"
    /\ UNCHANGED <<lastUndoKind, fmtUndo, fmtRedo>>

\* note_text_activity
NoteTextActivity ==
    /\ lastActionKind' = "text"
    /\ lastUndoKind' = "none"
    /\ UNCHANGED <<fmtUndo, fmtRedo>>

\* variant: undo looks at the undo stack alone
CanUndoFormatStackOnly == Len(fmtUndo) > 0

CanUndoFormat == lastActionKind = "format" /\ Len(fmtUndo) > 0
\* variant: redo looks at the redo stack alone
CanRedoFormatStackOnly == Len(fmtRedo) > 0

CanRedoFormat == lastUndoKind = "format" /\ Len(fmtRedo) > 0

NoRecord == FmtRecord("none", <<1, 0>>, <<1, 0>>, {}, {}, {}, <<>>, "none")

\* ---------------------------------------------------------- toggle_format
ToggleFormatWithSel(tag, s, e) ==
    /\ LET after == ToggleFormatSel(St, Dflt, tag, s, e)
       IN /\ SetSt(after)
          /\ NoteFormatActivity(TRUE, StyleRecord(St, after, s, e))
    /\ last' = "format"
    /\ UNCHANGED <<caret, textUndo, textRedo, spacing, typingSpec,
                   typingEnabled, defaultFont, defaultSize, idleQ, fmgrVars, bgVars>>

\* the spec a no-selection command starts from
TypingBase ==
    IF typingSpec # NoSpec THEN typingSpec
    ELSE GetEffectiveSpecAt(St, Dflt, Max(caret - 1, 0))

ToggleFormatNoSel(tag) ==
    /\ LET base == FlipFlag(TypingBase, tag)
       IN IF IsDefaultSpec(base, Dflt)
          THEN typingSpec' = NoSpec /\ typingEnabled' = FALSE
          ELSE typingSpec' = base /\ typingEnabled' = TRUE
    /\ NoteFormatActivity(FALSE, NoRecord)
    /\ last' = "format"
    /\ UNCHANGED <<edVars, styleMeta, defaultFont, defaultSize, idleQ, fmgrVars, bgVars>>

\* ------------------------------------------------- font family / font size
ApplyFontFamilyWithSel(name, s, e) ==
    /\ LET after == ApplyFontFamilySel(St, Dflt, name, s, e)
       IN /\ SetSt(after)
          /\ NoteFormatActivity(TRUE, StyleRecord(St, after, s, e))
    /\ last' = "format"
    /\ UNCHANGED <<caret, textUndo, textRedo, spacing, typingSpec,
                   typingEnabled, defaultFont, defaultSize, idleQ, fmgrVars, bgVars>>

ApplyFontFamilyNoSel(name) ==
    /\ defaultFont' = name
    /\ typingSpec' = [(IF typingSpec # NoSpec THEN typingSpec
                       ELSE DefaultSpec(<<name, defaultSize>>))
                      EXCEPT !.family = name]
    /\ typingEnabled' = TRUE
    /\ NoteFormatActivity(FALSE, NoRecord)
    /\ last' = "format"
    /\ UNCHANGED <<edVars, styleMeta, defaultSize, idleQ, fmgrVars, bgVars>>

ApplyFontSizeWithSel(size, s, e) ==
    /\ LET after == ApplyFontSizeSel(St, Dflt, size, s, e)
       IN /\ SetSt(after)
          /\ NoteFormatActivity(TRUE, StyleRecord(St, after, s, e))
    /\ last' = "format"
    /\ UNCHANGED <<caret, textUndo, textRedo, spacing, typingSpec,
                   typingEnabled, defaultFont, defaultSize, idleQ, fmgrVars, bgVars>>

ApplyFontSizeNoSel(size) ==
    /\ defaultSize' = size
    /\ typingSpec' = [(IF typingSpec # NoSpec THEN typingSpec
                       ELSE DefaultSpec(<<defaultFont, size>>))
                      EXCEPT !.size = size]
    /\ typingEnabled' = TRUE
    /\ NoteFormatActivity(FALSE, NoRecord)
    /\ last' = "format"
    /\ UNCHANGED <<edVars, styleMeta, defaultFont, idleQ, fmgrVars, bgVars>>

\* ------------------------------------------------------------ set_alignment
SetAlignmentOn(align, s, e, op) ==
    /\ LET lineNos == EachLineInRange(doc, s, e)
           before == {<<lineNos[k], GetLineAlign(doc, lineNos[k])>> :
                        k \in 1..Len(lineNos)}
       IN /\ SetSt(ApplyAlignmentToLines(St, align, lineNos))
          /\ NoteFormatActivity(TRUE,
                 FmtRecord("align", <<1, 0>>, <<1, 0>>, {}, before, {},
                           lineNos, align))
    /\ last' = op
    /\ UNCHANGED <<caret, textUndo, textRedo, spacing, typingSpec,
                   typingEnabled, defaultFont, defaultSize, idleQ, fmgrVars, bgVars>>

SetAlignmentWithSel(align, s, e) == SetAlignmentOn(align, s, e, "format")

\* no selection: "insert linestart" .. "insert lineend"
SetAlignmentNoSel(align) ==
    LET ln == NLBefore(doc, caret) + 1
    IN SetAlignmentOn(align, LineStart(doc, ln), LineEnd(doc, ln),
                      "format")

\* -------------------------------------------- pick_text_color / highlight
ApplyColorWithSel(mode, color, s, e) ==
    /\ LET tag == ColorTagName(mode, color)
           d1 == TagAdd(doc, tag, s, e)
       IN /\ doc' = d1
          /\ tagNames' = DefineTag(tagNames, tag)
          /\ NoteFormatActivity(TRUE,
                 FmtRecord("color", Index(doc, s), Index(doc, e), {tag},
                           SnapshotTagRanges(doc, tag, s, e),
                           SnapshotTagRanges(d1, tag, s, e), <<>>, "none"))
    /\ last' = "format"
    /\ UNCHANGED <<caret, textUndo, textRedo, spacing, fmVars, idleQ, fmgrVars, bgVars>>

ApplyColorNoSel ==
    /\ NoteFormatActivity(FALSE, NoRecord)
    /\ last' = "format"
    /\ UNCHANGED <<edVars, fmVars, idleQ, fmgrVars, bgVars>>

\* --------------------------------------------------------- clear_formatting
\* variant: only the combined-style tags are removed
ClearFormattingSelStyleOnly(d, tags, s, e) ==
    TagRemoveAll(d, {t \in tags : IsStyleTag(t)}, s, e)

\* the loop "for t in tags: tag_remove(t, sel_start, sel_end)"
ClearFormattingSel(d, tags, s, e) == TagRemoveAll(d, tags, s, e)

ClearFormattingWithSel(s, e) ==
    /\ LET tags == SeqToSet(tagNames)
           before == UNION {SnapshotTagRanges(doc, t, s, e) : t \in tags}
       IN /\ doc' = ClearFormattingSel(doc, tags, s, e)
          /\ NoteFormatActivity(TRUE,
                 FmtRecord("clear", Index(doc, s), Index(doc, e), tags,
                           before, {}, <<>>, "none"))
    /\ last' = "format"
    /\ UNCHANGED <<caret, tagNames, textUndo, textRedo, spacing, fmVars,
                   idleQ, fmgrVars, bgVars>>

\* variant: with nothing selected, the whole text is cleared
ClearFormattingNoSelClearsAll ==
    /\ doc' = TagRemoveAll(doc, SeqToSet(tagNames), 0, TextLen(doc))
    /\ NoteFormatActivity(FALSE, NoRecord)
    /\ last' = "format"
    /\ UNCHANGED <<caret, tagNames, textUndo, textRedo, spacing, fmVars, idleQ,
                   fmgrVars, bgVars>>

ClearFormattingNoSel ==
    /\ NoteFormatActivity(FALSE, NoRecord)
    /\ last' = "format"
    /\ UNCHANGED <<edVars, fmVars, idleQ, fmgrVars, bgVars>>

\* --------------------------------------------------------- set_line_spacing
\* extra = max(0, round(line_px * max(0, val - 1))), val in tenths
SpacingExtra(val10) ==
    LET num == LinePx * Max(0, val10 - 10)
    IN Max(0, (num + 5) \div 10)

SetLineSpacing(val10) ==
    /\ spacing' = SpacingExtra(val10)
    /\ NoteFormatActivity(FALSE, NoRecord)
    /\ last' = "format"
    /\ UNCHANGED <<doc, caret, tagNames, textUndo, textRedo, fmVars, idleQ,
                   fmgrVars, bgVars>>

\* ------------------------------------------------------------ typing mode
\* A key that inserts a character.  The widget binding
\* _on_keypress_capture_insert runs first and schedules the idle callback;
\* the class binding then inserts the character at the insert mark, which
\* raises <<Modified>> (App._on_modified -> note_text_activity).  Each key is
\* one unit of the widget's undo stack.
KeyPress(ch) ==
    /\ IF typingEnabled /\ typingSpec # NoSpec
       THEN idleQ' = Append(idleQ, Index(doc, caret))
       ELSE UNCHANGED idleQ
    /\ doc' = InsertAt(doc, caret, <<ch>>)
    /\ caret' = caret + 1
    /\ textUndo' = Append(textUndo, [pos |-> caret, del |-> <<>>, ins |-> <<ch>>])
    /\ textRedo' = <<>>
    /\ NoteTextActivity
    /\ last' = "text"
    /\ UNCHANGED <<tagNames, spacing, fmVars, fmgrVars, bgVars>>

\* A key that inserts a character while text is selected and the insert mark
\* is inside or at an end of the selection.  _on_keypress_capture_insert
\* captures the insert index first; the class binding then deletes the
\* selection and inserts the character, as one unit of the undo stack.
KeyPressOverSel(ch, s, e) ==
    /\ s <= caret /\ caret <= e
    /\ IF typingEnabled /\ typingSpec # NoSpec
       THEN idleQ' = Append(idleQ, Index(doc, caret))
       ELSE UNCHANGED idleQ
    /\ doc' = InsertAt(DeleteRange(doc, s, e), s, <<ch>>)
    /\ caret' = s + 1
    /\ textUndo' = Append(textUndo,
                       [pos |-> s, ins |-> <<ch>>,
                        del |-> [k \in 1..(e - s) |-> doc[s + k].ch]])
    /\ textRedo' = <<>>
    /\ NoteTextActivity
    /\ last' = "text"
    /\ UNCHANGED <<tagNames, spacing, fmVars, fmgrVars, bgVars>>

\* _apply_typing_to_newly_inserted(before), run from the idle queue
ApplyTypingToNewlyInserted ==
    /\ idleQ # <<>>
    /\ idleQ' = Tail(idleQ)
    /\ LET before == Pos(doc, Head(idleQ))
       IN IF typingEnabled /\ typingSpec # NoSpec /\ caret > before
          THEN SetSt(ApplySpecToRange(St, typingSpec, before, caret))
          ELSE UNCHANGED <<doc, tagNames, styleMeta>>
    /\ UNCHANGED <<caret, textUndo, textRedo, spacing, typingSpec,
                   typingEnabled, defaultFont, defaultSize, histVars, fmgrVars, bgVars,
                   last>>

\* where the class binding of a caret key leaves the insert mark
CaretKeyTarget(key) ==
    LET ln == NLBefore(doc, caret) + 1
    IN CASE key = "Right" -> Min(caret + 1, TextLen(doc))
         [] key = "Left" -> Max(caret - 1, 0)
         [] key = "Home" -> LineStart(doc, ln)
         [] key = "End" -> LineEnd(doc, ln)

\* A key that moves the insert mark, nothing selected:
\* _on_keypress_capture_insert runs for it as for any key, then the class
\* binding moves the mark.
CaretKey(key) ==
    /\ IF typingEnabled /\ typingSpec # NoSpec
       THEN idleQ' = Append(idleQ, Index(doc, caret))
       ELSE UNCHANGED idleQ
    /\ caret' = CaretKeyTarget(key)
    /\ UNCHANGED <<doc, tagNames, textUndo, textRedo, spacing, fmVars,
                   histVars, fmgrVars, bgVars, last>>

\* the characters [a, b) the class binding of a deleting key removes
DeleteKeyRange(key) ==
    IF key = "BackSpace" THEN <<Max(caret - 1, 0), caret>>
    ELSE <<caret, Min(caret + 1, TextLen(doc))>>

\* BackSpace or Delete with nothing selected and a character to remove:
\* _on_keypress_capture_insert runs first, then the class binding deletes,
\* which raises <<Modified>>.
DeleteKey(key) ==
    LET a == DeleteKeyRange(key)[1]
        b == DeleteKeyRange(key)[2]
    IN /\ a < b
       /\ IF typingEnabled /\ typingSpec # NoSpec
          THEN idleQ' = Append(idleQ, Index(doc, caret))
          ELSE UNCHANGED idleQ
       /\ doc' = DeleteRange(doc, a, b)
       /\ caret' = a
       /\ textUndo' = Append(textUndo, [pos |-> a, ins |-> <<>>,
                                        del |-> <<doc[a + 1].ch>>])
       /\ textRedo' = <<>>
       /\ NoteTextActivity
       /\ last' = "text"
       /\ UNCHANGED <<tagNames, spacing, fmVars, fmgrVars, bgVars>>

\* a click that moves the insert mark
MoveCaret(p) ==
    /\ p # caret
    /\ caret' = p
    /\ UNCHANGED <<doc, tagNames, textUndo, textRedo, spacing, fmVars,
                   histVars, idleQ, fmgrVars, bgVars, last>>

\* ------------------------------------------------------------------- lists
\* bullet: the bullet character U+2022, written "*" here, and a space
Bullet == <<"*", " ">>
DigitChars == <<"0", "1", "2", "3", "4", "5", "6", "7", "8", "9">>

IsDigit(c) == \E k \in 1..Len(DigitChars) : DigitChars[k] = c
DigitVal(c) == (CHOOSE k \in 1..Len(DigitChars) : DigitChars[k] = c) - 1
IsBlankChar(c) == c = " " \/ c = "\t"

\* editor.get("ln.0", "ln.0 lineend")
LineText(d, ln) ==
    [k \in 1..(LineEnd(d, ln) - LineStart(d, ln)) |-> d[LineStart(d, ln) + k].ch]

\* the loop "while indent < len(txt) and txt[indent] in (' ', '\t')"
RECURSIVE LeadingBlanks(_)
LeadingBlanks(txt) ==
    IF txt # <<>> /\ IsBlankChar(Head(txt)) THEN 1 + LeadingBlanks(Tail(txt))
    ELSE 0

RECURSIVE LeadingDigits(_)
LeadingDigits(txt) ==
    IF txt # <<>> /\ IsDigit(Head(txt)) THEN 1 + LeadingDigits(Tail(txt))
    ELSE 0

Drop(txt, n) == SubSeq(txt, n + 1, Len(txt))

\* tail.startswith(prefix)
StartsWith(txt, prefix) ==
    Len(txt) >= Len(prefix) /\ SubSeq(txt, 1, Len(prefix)) = prefix

\* txt.strip() == ""
IsBlank(txt) == \A k \in 1..Len(txt) : IsBlankChar(txt[k])

\* len(m.group(0)) for m = num_re.match(tail), 0 when there is no match
NumLen(tail) ==
    LET nd == LeadingDigits(tail)
        rest == Drop(tail, nd)
        ns == IF rest # <<>> /\ Head(rest) = "."
              THEN LeadingBlanks(Tail(rest)) ELSE 0
    IN IF nd > 0 /\ ns > 0 THEN nd + 1 + ns ELSE 0

\* int(m.group("num"))
RECURSIVE DigitsToNat(_)
DigitsToNat(ds) ==
    IF ds = <<>> THEN 0
    ELSE 10 * DigitsToNat(SubSeq(ds, 1, Len(ds) - 1)) + DigitVal(ds[Len(ds)])

\* variant: only the last digit of the number is written
NatToDigitsLastOnly(n) == <<DigitChars[(n % 10) + 1]>>

\* the digits of f"{n}"
RECURSIVE NatToDigits(_)
NatToDigits(n) ==
    IF n < 10 THEN <<DigitChars[n + 1]>>
    ELSE NatToDigits(n \div 10) \o <<DigitChars[(n % 10) + 1]>>

\* The widget while a handler edits its text: the characters, the insert
\* mark and the undo stack.  The insert mark has right gravity.
Ed == [doc |-> doc, caret |-> caret, undo |-> textUndo]

\* editor.insert(p, chs)
EdInsert(ed, p, chs) ==
    [doc |-> InsertAt(ed.doc, p, chs),
     caret |-> IF p <= ed.caret THEN ed.caret + Len(chs) ELSE ed.caret,
     undo |-> Append(ed.undo, [pos |-> p, del |-> <<>>, ins |-> chs])]

\* editor.delete(a, b)
EdDelete(ed, a, b) ==
    [doc |-> DeleteRange(ed.doc, a, b),
     caret |-> IF ed.caret <= a THEN ed.caret
               ELSE IF ed.caret >= b THEN ed.caret - (b - a) ELSE a,
     undo |-> Append(ed.undo,
                 [pos |-> a, ins |-> <<>>,
                  del |-> [k \in 1..(b - a) |-> ed.doc[a + k].ch]])]

\* variant: a numeric prefix is not recognised
LineInfoNoNumber(d, ln) ==
    LET txt == LineText(d, ln)
        indent == LeadingBlanks(txt)
        tail == Drop(txt, indent)
    IN [ln |-> ln, txt |-> txt, indent |-> indent,
        is_b |-> StartsWith(tail, Bullet), num_len |-> 0]

\* _line_info of toggle_list
LineInfo(d, ln) ==
    LET txt == LineText(d, ln)
        indent == LeadingBlanks(txt)
        tail == Drop(txt, indent)
    IN [ln |-> ln, txt |-> txt, indent |-> indent,
        is_b |-> StartsWith(tail, Bullet), num_len |-> NumLen(tail)]

\* toggle_list, the loop "for ... in reversed(relevant)"
RECURSIVE ToggleListApply(_, _, _)
ToggleListApply(ed, relevant, allBulleted) ==
    IF relevant = <<>> THEN ed
    ELSE LET g == relevant[Len(relevant)]
             at == LineStart(ed.doc, g.ln) + g.indent
             stripped == IF g.num_len > 0
                         THEN EdDelete(ed, at, at + g.num_len) ELSE ed
             ed1 == IF allBulleted
                    THEN IF g.is_b THEN EdDelete(ed, at, at + Len(Bullet))
                         ELSE ed
                    ELSE IF ~IsBlank(g.txt) /\ ~g.is_b
                         THEN EdInsert(stripped, at, Bullet)
                         ELSE ed
         IN ToggleListApply(ed1, SubSeq(relevant, 1, Len(relevant) - 1),
                            allBulleted)

\* toggle_list on the lines line_nos
ToggleListOn(ed, lineNos) ==
    LET relevant == [k \in 1..Len(lineNos) |-> LineInfo(ed.doc, lineNos[k])]
        allBulleted == \A k \in 1..Len(relevant) :
                          IsBlank(relevant[k].txt) \/ relevant[k].is_b
    IN ToggleListApply(ed, relevant, allBulleted)

\* A handler that edited the text: the edits raise <<Modified>>
\* (App._on_modified -> note_text_activity).
SetEd(ed, op) ==
    /\ doc' = ed.doc
    /\ caret' = ed.caret
    /\ textUndo' = ed.undo
    /\ IF ed.undo # textUndo
       THEN /\ textRedo' = <<>>
            /\ NoteTextActivity
            /\ last' = op
       ELSE UNCHANGED <<textRedo, histVars, last>>
    /\ UNCHANGED <<tagNames, spacing, fmVars, idleQ, fmgrVars, bgVars>>

ToggleListWithSel(s, e) ==
    SetEd(ToggleListOn(Ed, EachLineInRange(doc, s, e)), "toggle_list")

\* no selection: "insert linestart" .. "insert lineend"
ToggleListNoSel ==
    LET ln == NLBefore(doc, caret) + 1
    IN SetEd(ToggleListOn(Ed, EachLineInRange(doc, LineStart(doc, ln),
                                              LineEnd(doc, ln))),
             "toggle_list")

\* toggle_numbered_list, the entry of items for a line
NumberedItem(d, ln) ==
    LET txt == LineText(d, ln)
        indent == LeadingBlanks(txt)
        tail == Drop(txt, indent)
    IN IF IsBlank(txt)
       THEN [ln |-> ln, txt |-> txt, indent |-> indent, is_num |-> FALSE,
             num_len |-> 0, is_b |-> FALSE]
       ELSE [ln |-> ln, txt |-> txt, indent |-> indent,
             is_num |-> NumLen(tail) > 0, num_len |-> NumLen(tail),
             is_b |-> StartsWith(tail, Bullet)]

\* variant: blank lines take a number too
NumbersByLsCountsBlank(items, k) == k

\* numbers_by_ls[ls] for the k-th entry of items
NumbersByLs(items, k) ==
    Cardinality({j \in 1..k : ~IsBlank(items[j].txt)})

\* toggle_numbered_list, the loop "for ... in reversed(items)" that removes
RECURSIVE RemoveNumbering(_, _)
RemoveNumbering(ed, items) ==
    IF items = <<>> THEN ed
    ELSE LET g == items[Len(items)]
             at == LineStart(ed.doc, g.ln) + g.indent
             ed1 == IF IsBlank(g.txt) \/ ~g.is_num THEN ed
                    ELSE EdDelete(ed, at, at + g.num_len)
         IN RemoveNumbering(ed1, SubSeq(items, 1, Len(items) - 1))

\* toggle_numbered_list, the last loop "for ... in reversed(items)"; k is the
\* position in items of the entry worked on
RECURSIVE AddNumbering(_, _, _)
AddNumbering(ed, items, k) ==
    IF k = 0 THEN ed
    ELSE LET g == items[k]
             at == LineStart(ed.doc, g.ln) + g.indent
             ed1 == IF g.is_b THEN EdDelete(ed, at, at + Len(Bullet)) ELSE ed
             ed2 == IF g.is_num /\ g.num_len > 0
                    THEN EdDelete(ed1, at, at + g.num_len) ELSE ed1
             ed3 == EdInsert(ed2, at,
                             NatToDigits(NumbersByLs(items, k)) \o <<".", " ">>)
         IN AddNumbering(IF IsBlank(g.txt) THEN ed ELSE ed3, items, k - 1)

\* toggle_numbered_list on the lines line_nos
ToggleNumberedListOn(ed, lineNos) ==
    LET items == [k \in 1..Len(lineNos) |-> NumberedItem(ed.doc, lineNos[k])]
        allNumbered == \A k \in 1..Len(items) :
                          IsBlank(items[k].txt) \/ items[k].is_num
    IN IF allNumbered THEN RemoveNumbering(ed, items)
       ELSE AddNumbering(ed, items, Len(items))

ToggleNumberedListWithSel(s, e) ==
    SetEd(ToggleNumberedListOn(Ed, EachLineInRange(doc, s, e)),
          "toggle_numbered_list")

\* no selection: "insert linestart" .. "insert lineend"
ToggleNumberedListNoSel ==
    LET ln == NLBefore(doc, caret) + 1
    IN SetEd(ToggleNumberedListOn(Ed, EachLineInRange(doc, LineStart(doc, ln),
                                                      LineEnd(doc, ln))),
             "toggle_numbered_list")

\* handle_return_key; when it returns None the class binding of the widget
\* inserts the newline.  <Return> is the widget's most specific binding for
\* the key, so _on_keypress_capture_insert does not run for it.
HandleReturnKey(ed) ==
    LET ln == NLBefore(ed.doc, ed.caret) + 1
        lineStart == LineStart(ed.doc, ln)
        lineEnd == LineEnd(ed.doc, ln)
        lineText == LineText(ed.doc, ln)
        indent == LeadingBlanks(lineText)
        indentStr == SubSeq(lineText, 1, indent)
        tail == Drop(lineText, indent)
        at == lineStart + indent
        prefixLen == NumLen(tail)
        curNum == DigitsToNat(SubSeq(tail, 1, LeadingDigits(tail)))
    IN IF StartsWith(tail, Bullet)
       THEN IF IsBlank(Drop(tail, Len(Bullet))) /\ ed.caret >= lineEnd
            THEN LET ed1 == EdDelete(ed, at, at + Len(Bullet))
                 IN EdInsert(ed1, ed1.caret, <<"\n">>)
            ELSE EdInsert(ed, ed.caret, <<"\n">> \o indentStr \o Bullet)
       ELSE IF prefixLen > 0
       THEN IF IsBlank(Drop(tail, prefixLen)) /\ ed.caret >= lineEnd
            THEN LET ed1 == EdDelete(ed, at, at + prefixLen)
                 IN EdInsert(ed1, ed1.caret, <<"\n">>)
            ELSE EdInsert(ed, ed.caret,
                          <<"\n">> \o indentStr \o NatToDigits(curNum + 1)
                          \o <<".", " ">>)
       ELSE EdInsert(ed, ed.caret, <<"\n">>)

ReturnKey == SetEd(HandleReturnKey(Ed), "return_key")

\* ------------------------------------------------- widget: edit undo / redo
\* One unit of the widget's undo stack: at offset pos the characters del
\* were removed and the characters ins inserted.
TextUndoUnit(d, u) == InsertAt(DeleteRange(d, u.pos, u.pos + Len(u.ins)), u.pos, u.del)
TextRedoUnit(d, u) == InsertAt(DeleteRange(d, u.pos, u.pos + Len(u.del)), u.pos, u.ins)

\* ------------------------------------------------ App.safe_undo / safe_redo
\* variant: the record stays on the undo stack
UndoFormatKeepsRecord ==
    /\ CanUndoFormat
    /\ LET action == fmtUndo[Len(fmtUndo)]
       IN /\ SetSt(ApplyUndo(St, action))
          /\ fmtUndo' = fmtUndo
          /\ fmtRedo' = Append(fmtRedo, action)
    /\ lastUndoKind' = "format"
    /\ last' = "undo_format"
    /\ UNCHANGED <<caret, textUndo, textRedo, spacing, typingSpec,
                   typingEnabled, defaultFont, defaultSize, lastActionKind,
                   idleQ, fmgrVars, bgVars>>

UndoFormat ==
    /\ CanUndoFormat
    /\ LET action == fmtUndo[Len(fmtUndo)]
       IN /\ SetSt(ApplyUndo(St, action))
          /\ fmtUndo' = SubSeq(fmtUndo, 1, Len(fmtUndo) - 1)
          /\ fmtRedo' = Append(fmtRedo, action)
    /\ lastUndoKind' = "format"
    /\ last' = "undo_format"
    /\ UNCHANGED <<caret, textUndo, textRedo, spacing, typingSpec,
                   typingEnabled, defaultFont, defaultSize, lastActionKind,
                   idleQ, fmgrVars, bgVars>>

\* editor.edit_undo() succeeds, then note_text_activity
UndoText ==
    /\ ~CanUndoFormat
    /\ textUndo # <<>>
    /\ LET u == textUndo[Len(textUndo)]
       IN /\ doc' = TextUndoUnit(doc, u)
          /\ caret' = u.pos + Len(u.del)
          /\ textUndo' = SubSeq(textUndo, 1, Len(textUndo) - 1)
          /\ textRedo' = Append(textRedo, u)
    /\ NoteTextActivity
    /\ last' = "undo_text"
    /\ UNCHANGED <<tagNames, spacing, fmVars, idleQ, fmgrVars, bgVars>>

\* editor.edit_undo() raises TclError: nothing to undo
UndoNothing ==
    /\ ~CanUndoFormat
    /\ textUndo = <<>>
    /\ UNCHANGED <<edVars, fmVars, histVars, idleQ, fmgrVars, bgVars, last>>

SafeUndo == UndoFormat \/ UndoText \/ UndoNothing

\* variant: a formatting redo leaves _last_undo_kind as it was
RedoFormatKeepsUndoKind ==
    /\ CanRedoFormat
    /\ LET action == fmtRedo[Len(fmtRedo)]
       IN /\ SetSt(ApplyRedo(St, action))
          /\ fmtRedo' = SubSeq(fmtRedo, 1, Len(fmtRedo) - 1)
          /\ fmtUndo' = Append(fmtUndo, action)
    /\ lastActionKind' = "format"
    /\ UNCHANGED lastUndoKind
    /\ last' = "redo_format"
    /\ UNCHANGED <<caret, textUndo, textRedo, spacing, typingSpec,
                   typingEnabled, defaultFont, defaultSize, idleQ, fmgrVars,
                   bgVars>>

RedoFormat ==
    /\ CanRedoFormat
    /\ LET action == fmtRedo[Len(fmtRedo)]
       IN /\ SetSt(ApplyRedo(St, action))
          /\ fmtRedo' = SubSeq(fmtRedo, 1, Len(fmtRedo) - 1)
          /\ fmtUndo' = Append(fmtUndo, action)
    /\ lastActionKind' = "format"
    /\ lastUndoKind' = "none"
    /\ last' = "redo_format"
    /\ UNCHANGED <<caret, textUndo, textRedo, spacing, typingSpec,
                   typingEnabled, defaultFont, defaultSize, idleQ, fmgrVars, bgVars>>

\* editor.edit_redo() succeeds; the edit raises <<Modified>>
RedoText ==
    /\ ~CanRedoFormat
    /\ textRedo # <<>>
    /\ LET u == textRedo[Len(textRedo)]
       IN /\ doc' = TextRedoUnit(doc, u)
          /\ caret' = u.pos + Len(u.ins)
          /\ textRedo' = SubSeq(textRedo, 1, Len(textRedo) - 1)
          /\ textUndo' = Append(textUndo, u)
    /\ NoteTextActivity
    /\ last' = "redo_text"
    /\ UNCHANGED <<tagNames, spacing, fmVars, idleQ, fmgrVars, bgVars>>

RedoNothing ==
    /\ ~CanRedoFormat
    /\ textRedo = <<>>
    /\ UNCHANGED <<edVars, fmVars, histVars, idleQ, fmgrVars, bgVars, last>>

SafeRedo == RedoFormat \/ RedoText \/ RedoNothing

\* ------------------------------------------------ FileManager: native codec
\* the tag_configs entry _save_pwp reads back from the widget for a tag
TagConfig(t) ==
    IF IsStyleTag(t)
    THEN [font |-> [family |-> t[2], size |-> t[3],
                    weight |-> IF t[4] THEN "bold" ELSE "normal",
                    slant |-> IF t[5] THEN "italic" ELSE "roman",
                    underline |-> IF t[6] THEN 1 ELSE 0,
                    overstrike |-> IF t[7] THEN 1 ELSE 0]]
    ELSE IF IsFgTag(t) THEN [foreground |-> t[2]]
    ELSE IF IsBgTag(t) THEN [background |-> t[2]]
    ELSE [justify |-> t[2]]

\* _save_pwp: the payload written to disk
SavePwpPayload(d, names) ==
    LET used == SelectSeq(names, LAMBDA t : TagRuns(d, t, 0, Len(d)) # {})
    IN [version |-> PwpVersion,
        text |-> TextOf(d),
        tags |-> [k \in 1..Len(used) |->
                    [name |-> used[k],
                     ranges |-> {<<Index(d, r[1]), Index(d, r[2])>> :
                                   r \in TagRuns(d, used[k], 0, Len(d))}]],
        tag_configs |-> [k \in 1..Len(used) |->
                           [name |-> used[k], cfg |-> TagConfig(used[k])]]]

\* _set_editor_content: delete("1.0", END) then insert("1.0", content)
SetEditorContent(content) ==
    [k \in 1..(Len(content) + 1) |->
        [ch |-> IF k <= Len(content) THEN content[k] ELSE "\n", tags |-> {}]]

RECURSIVE AddPayloadRanges(_, _)
AddPayloadRanges(d, tagRecs) ==
    IF tagRecs = <<>> THEN d
    ELSE LET rec == Head(tagRecs)
             withTag == AddRanges([doc |-> d, names |-> <<>>, meta |-> <<>>],
                            {<<rec.name, r[1], r[2]>> : r \in rec.ranges})
         IN AddPayloadRanges(withTag.doc, Tail(tagRecs))

\* the units _set_editor_content leaves on the widget's undo stack
ContentUnits(old, content) ==
    (IF old = <<>> THEN <<>> ELSE <<[pos |-> 0, del |-> old, ins |-> <<>>]>>)
    \o (IF content = <<>> THEN <<>>
        ELSE <<[pos |-> 0, del |-> <<>>, ins |-> content]>>)

\* the path the session saves its document under
PwpPath == "doc.pwp"

\* save_as_file with PwpPath chosen (save_file once that is the current path)
SavePwp ==
    /\ file' = SavePwpPayload(doc, tagNames)
    /\ currentFilePath' = PwpPath
    /\ openedFromPdf' = FALSE
    /\ file' # file \/ currentFilePath # PwpPath \/ openedFromPdf
    /\ UNCHANGED <<edVars, fmVars, histVars, idleQ, dialog, docx, txtFile, pdfFile,
                   bgVars, last>>

\* _open_pwp: what the widget holds after the payload is loaded
OpenPwpDoc(payload) ==
    AddPayloadRanges(SetEditorContent(payload.text), payload.tags)

\* _open_pwp: the widget's tag names afterwards (tag_configure of every
\* tag_configs entry first, then tag_add of every tags entry)
OpenPwpNames(names, payload) ==
    DefineTags(
        DefineTags(names,
            [k \in 1..Len(payload.tag_configs) |-> payload.tag_configs[k].name]),
        [k \in 1..Len(payload.tags) |-> payload.tags[k].name])

\* Files written by something else than this session's _save_pwp.  A JSON
\* array is [array |-> its elements]; an object is the record of its members,
\* and kinds names the members whose JSON type is not the one _save_pwp
\* writes.
ForeignFiles ==
    ("newer.pwp" :> [version |-> 2, text |-> <<"y">>, tags |-> <<>>,
                     tag_configs |-> <<>>])
    @@ ("unversioned.pwp" :> [text |-> <<"y">>, tags |-> <<>>,
                              tag_configs |-> <<>>])
    @@ ("list.pwp" :> [array |-> <<1>>])
    @@ ("configs.pwp" :> [version |-> 1, text |-> <<"y">>, tags |-> <<>>,
                          tag_configs |-> <<>>,
                          kinds |-> [tag_configs |-> "array"]])
    @@ ("ranges.pwp" :> [version |-> 1, text |-> <<"y">>, tags |-> <<>>,
                         tag_configs |-> <<>>,
                         kinds |-> [tags |-> "number"]])

ForeignPaths == DOMAIN ForeignFiles

\* json.load(f) of the file at a path
Disk(path) == IF path = PwpPath THEN file ELSE ForeignFiles[path]

\* isinstance(payload, dict) and payload.get("version") == 1
SupportedPwp(payload) ==
    /\ "array" \notin DOMAIN payload
    /\ "version" \in DOMAIN payload
    /\ payload.version = PwpVersion

MemberKind(payload, key) ==
    IF "kinds" \in DOMAIN payload /\ key \in DOMAIN payload.kinds
    THEN payload.kinds[key] ELSE "saved"

\* variant: the version is looked at only after the text has been loaded
OpenPwpRaisesAtLateCheck(payload) ==
    IF SupportedPwp(payload) THEN "none"
    ELSE IF "text" \in DOMAIN payload THEN "tag_configs" ELSE "version"

\* The step of _open_pwp that raises, "none" when none does: the version
\* check for an unsupported payload, the tag_configs loop when tag_configs is
\* an array (no .items()), the tags loop when tags is a number (not
\* iterable).
OpenPwpRaisesAt(payload) ==
    IF ~SupportedPwp(payload) THEN "version"
    ELSE IF MemberKind(payload, "tag_configs") = "array" THEN "tag_configs"
    ELSE IF MemberKind(payload, "tags") = "number" THEN "tags"
    ELSE "none"

\* str(e) of the exception raised at a step of _open_pwp
OpenPwpError(at) ==
    CASE at = "version" -> "Unsupported .pwp file version"
      [] at = "tag_configs" -> "'list' object has no attribute 'items'"
      [] at = "tags" -> "'int' object is not iterable"

\* open_file on a .pwp path: _open_pwp runs up to the step that raises; the
\* except clause of open_file then shows the error box.
OpenFilePwp(path) ==
    /\ LET payload == Disk(path)
           at == OpenPwpRaisesAt(payload)
       IN /\ IF at = "version"
             THEN UNCHANGED <<doc, caret, tagNames, textUndo, textRedo,
                              histVars, last>>
             ELSE /\ doc' = IF at = "none" THEN OpenPwpDoc(payload)
                            ELSE SetEditorContent(payload.text)
                  /\ caret' = Len(payload.text)
                  /\ tagNames' =
                        IF at = "tag_configs" THEN tagNames
                        ELSE IF at = "tags"
                        THEN DefineTags(tagNames,
                                 [k \in 1..Len(payload.tag_configs) |->
                                     payload.tag_configs[k].name])
                        ELSE OpenPwpNames(tagNames, payload)
                  /\ textUndo' = textUndo
                                 \o ContentUnits(TextOf(doc), payload.text)
                  /\ textRedo' = <<>>
                  /\ NoteTextActivity
                  /\ last' = "text"
          /\ IF at = "none"
             THEN /\ currentFilePath' = path
                  /\ openedFromPdf' = FALSE
                  /\ dialog' = "none"
             ELSE /\ dialog' = OpenPwpError(at)
                  /\ UNCHANGED <<currentFilePath, openedFromPdf>>
    /\ UNCHANGED <<spacing, fmVars, idleQ, file, docx, txtFile, pdfFile, bgVars>>

\* the session opens the file it saved
OpenPwp ==
    /\ file # NoFile
    /\ OpenFilePwp(PwpPath)

\* open_file on a .pdf path whose extracted text is content
OpenPdf(content) ==
    /\ openedFromPdf' = TRUE
    /\ currentFilePath' = "none"
    /\ doc' = SetEditorContent(content)
    /\ caret' = Len(content)
    /\ textUndo' = textUndo \o ContentUnits(TextOf(doc), content)
    /\ textRedo' = <<>>
    /\ NoteTextActivity
    /\ last' = "text"
    /\ dialog' = "none"
    /\ UNCHANGED <<tagNames, spacing, fmVars, idleQ, file, docx, txtFile, pdfFile,
                   bgVars>>

\* open_file on a text file holding content
TxtPath == "notes.txt"

OpenText(content) ==
    /\ openedFromPdf' = FALSE
    /\ currentFilePath' = TxtPath
    /\ doc' = SetEditorContent(content)
    /\ caret' = Len(content)
    /\ textUndo' = textUndo \o ContentUnits(TextOf(doc), content)
    /\ textRedo' = <<>>
    /\ NoteTextActivity
    /\ last' = "text"
    /\ dialog' = "none"
    /\ UNCHANGED <<tagNames, spacing, fmVars, idleQ, file, docx, txtFile, pdfFile,
                   bgVars>>

\* ------------------------------------------------ FileManager: .docx runs
\* the editor's font option at 100% zoom
EditorFont == <<InitDefaultFont, InitDefaultSize>>

NoTag == <<"none">>

\* next((t for t in tags if t.startswith(prefix)), None)
FirstTag(tags, prefix) ==
    LET hits == SelectSeq(tags, LAMBDA t : t[1] = prefix)
    IN IF hits # <<>> THEN hits[1] ELSE NoTag

\* the tags that make run boundaries: style, foreground, background
RunTagsOf(names) ==
    {t \in SeqToSet(names) : IsStyleTag(t) \/ IsFgTag(t) \/ IsBgTag(t)}

\* variant: only the ends of the tag ranges are boundaries
RunBoundariesTagEndsOnly(st, s, e) ==
    SortedSeq(UNION {{r[1], r[2]} : r \in
                UNION {TagRuns(st.doc, t, s, e) : t \in RunTagsOf(st.names)}})

RunBoundaries(st, s, e) ==
    SortedSeq({s, e} \cup
        UNION {{r[1], r[2]} : r \in
                UNION {TagRuns(st.doc, t, s, e) : t \in RunTagsOf(st.names)}})

\* _style_spec_from_tag: the editor's font when there is no style tag, else
\* the size and flags of the tag's name and the family of the tag's font
StyleSpecFromTag(styleTag) ==
    IF styleTag = NoTag
    THEN [family |-> EditorFont[1], size |-> EditorFont[2], bold |-> FALSE,
          italic |-> FALSE, underline |-> FALSE, strike |-> FALSE]
    ELSE [family |-> styleTag[2], size |-> styleTag[3], bold |-> styleTag[4],
          italic |-> styleTag[5], underline |-> styleTag[6],
          strike |-> styleTag[7]]

ColorFromTag(tag) == IF tag = NoTag THEN "none" ELSE tag[2]

\* _iter_run_segments(start, end)
IterRunSegments(st, s, e) ==
    LET ordered == RunBoundaries(st, s, e)
    IN [k \in 1..(Len(ordered) - 1) |->
          LET tags == TagNamesAt(st.doc, st.names, ordered[k])
          IN [start |-> ordered[k], end |-> ordered[k + 1],
              spec |-> StyleSpecFromTag(FirstTag(tags, STYLE_TAG_PREFIX)),
              fg |-> ColorFromTag(FirstTag(tags, COLOR_FG_TAG_PREFIX)),
              bg |-> ColorFromTag(FirstTag(tags, COLOR_BG_TAG_PREFIX))]]

\* _hex_to_docx_highlight
HexToDocxHighlight(hx) ==
    CASE hx = "#ffff00" -> "YELLOW"
      [] hx = "#00ff00" -> "BRIGHT_GREEN"
      [] hx = "#00ffff" -> "TURQUOISE"
      [] hx = "#ff00ff" -> "PINK"
      [] hx = "#ff0000" -> "RED"
      [] hx = "#0000ff" -> "BLUE"
      [] hx = "#c0c0c0" -> "GRAY_25"
      [] hx = "#808080" -> "GRAY_50"
      [] OTHER -> "YELLOW"

\* p.add_run(seg_text) with the fields set from the segment
DocxRun(d, seg) ==
    [text |-> [k \in 1..(seg.end - seg.start) |-> d[seg.start + k].ch],
     family |-> seg.spec.family, size |-> seg.spec.size,
     bold |-> seg.spec.bold, italic |-> seg.spec.italic,
     underline |-> seg.spec.underline, strike |-> seg.spec.strike,
     fg |-> seg.fg,
     bg |-> IF seg.bg = "none" THEN "none" ELSE HexToDocxHighlight(seg.bg)]

\* _get_alignment_for_line: the first of center, right, left on column 0
GetAlignmentForLine(d, ln) ==
    LET tags == TagsAt(d, Pos(d, <<ln, 0>>))
        hits == SelectSeq(<<"center", "right", "left">>,
                          LAMBDA a : AlignTagName(a) \in tags)
    IN IF hits # <<>> THEN hits[1] ELSE "none"

\* _save_docx_runs: one paragraph for each line of the text
SaveDocxRuns(st) ==
    [ln \in 1..NumLines(st.doc) |->
        LET align == GetAlignmentForLine(st.doc, ln)
            segs == IterRunSegments(st, LineStart(st.doc, ln),
                                    LineEnd(st.doc, ln))
        IN [alignment |-> IF align \in {"center", "right"} THEN align
                          ELSE "left",
            runs |-> [k \in 1..Len(segs) |-> DocxRun(st.doc, segs[k])]]]

DocxPath == "doc.docx"

\* save_as_file with DocxPath chosen (save_file once that is the current path)
SaveDocx ==
    /\ docx' = SaveDocxRuns(St)
    /\ currentFilePath' = DocxPath
    /\ openedFromPdf' = FALSE
    /\ docx' # docx \/ currentFilePath # DocxPath \/ openedFromPdf
    /\ UNCHANGED <<edVars, fmVars, histVars, idleQ, file, dialog, txtFile, pdfFile,
                   bgVars, last>>

\* ------------------------------------------- FileManager: save and export
PdfPath == "doc.pdf"
Cancelled == ""

\* what a save dialog can answer: a path of any extension, or nothing
SavePaths == {PwpPath, DocxPath, TxtPath, PdfPath}

\* os.path.splitext(path)[1].lower()
Ext(path) ==
    CASE path = PwpPath -> ".pwp"
      [] path = DocxPath -> ".docx"
      [] path = PdfPath -> ".pdf"
      [] OTHER -> ".txt"

\* variant: no extension is refused
WriteFileRefusesNothing(path) == FALSE

\* _write_file: "if ext == '.pdf': ... return False"
WriteFileRefuses(path) == Ext(path) = ".pdf"

\* _write_file(path), what it leaves on disk: the native payload, the .docx
\* document, or the plain text at any other path
WriteFile(path) ==
    IF WriteFileRefuses(path) THEN UNCHANGED <<file, docx, txtFile, pdfFile>>
    ELSE IF Ext(path) = ".pwp"
    THEN file' = SavePwpPayload(doc, tagNames)
         /\ UNCHANGED <<docx, txtFile, pdfFile>>
    ELSE IF Ext(path) = ".docx"
    THEN docx' = SaveDocxRuns(St) /\ UNCHANGED <<file, txtFile, pdfFile>>
    ELSE IF path = PdfPath
    THEN pdfFile' = [format |-> "text", by |-> "save"]
         /\ UNCHANGED <<file, docx, txtFile>>
    ELSE txtFile' = TextOf(doc) /\ UNCHANGED <<file, docx, pdfFile>>

\* save_as_file, the dialog answering path
SaveAsFile(path) ==
    /\ IF path = Cancelled
       THEN UNCHANGED <<file, docx, txtFile, pdfFile, currentFilePath,
                        openedFromPdf>>
       ELSE /\ WriteFile(path)
            /\ IF WriteFileRefuses(path)
               THEN UNCHANGED <<currentFilePath, openedFromPdf>>
               ELSE currentFilePath' = path /\ openedFromPdf' = FALSE
    /\ UNCHANGED <<edVars, fmVars, histVars, idleQ, dialog, bgVars, last>>

\* save_file; path is the answer of the Save As dialog when one is shown
SaveFile(path) ==
    IF openedFromPdf \/ currentFilePath = "none" THEN SaveAsFile(path)
    ELSE /\ path = Cancelled
         /\ WriteFile(currentFilePath)
         /\ UNCHANGED <<edVars, fmVars, histVars, idleQ, currentFilePath,
                        openedFromPdf, dialog, bgVars, last>>

\* export_pdf with the fpdf package present, the dialog answering PdfPath:
\* a PDF document rendered from the text
ExportPdf ==
    /\ pdfFile' = [format |-> "pdf", by |-> "export", text |-> TextOf(doc)]
    /\ UNCHANGED <<edVars, fmVars, histVars, idleQ, file, currentFilePath,
                   openedFromPdf, dialog, docx, txtFile, bgVars, last>>

\* --------------------------------- TextProcessor / DeveloperEngine: threads
\* A background thread is [target, args, pc]: the method it runs, the argument
\* it was started with, and where it is in the method.
IsBlankText(text) ==
    \A k \in 1..Len(text) : IsBlankChar(text[k]) \/ text[k] = "\n"

\* threading.Thread(target=..., args=(text,), daemon=True).start()
StartThread(target, text) ==
    threads' = Append(threads, [target |-> target, args |-> text,
                                pc |-> "start"])

EndThread(i) ==
    threads' = SubSeq(threads, 1, i - 1) \o SubSeq(threads, i + 1, Len(threads))

\* read_aloud with the speech library present, on the UI thread; text is the
\* selection, or editor.get("1.0", END) when nothing is selected
ReadAloud(text) ==
    /\ IF IsBlankText(text) THEN UNCHANGED threads
       ELSE StartThread("_speak", text)
    /\ UNCHANGED <<edVars, fmVars, histVars, idleQ, fmgrVars, consoleQueue,
                   console, spoken, last>>

ReadAloudWithSel(s, e) == ReadAloud(SubSeq(TextOf(doc), s + 1, e))

ReadAloudNoSel == ReadAloud(TextOf(doc) \o <<"\n">>)

\* variant: the thread reads the widget when it speaks
SpeakReadsEditor(i) ==
    /\ i \in 1..Len(threads)
    /\ threads[i].target = "_speak"
    /\ spoken' = Append(spoken, TextOf(doc) \o <<"\n">>)
    /\ EndThread(i)
    /\ UNCHANGED <<edVars, fmVars, histVars, idleQ, fmgrVars, consoleQueue,
                   console, last>>

\* _speak(text), on its thread: tts_engine.say(text); runAndWait()
Speak(i) ==
    /\ i \in 1..Len(threads)
    /\ threads[i].target = "_speak"
    /\ spoken' = Append(spoken, threads[i].args)
    /\ EndThread(i)
    /\ UNCHANGED <<edVars, fmVars, histVars, idleQ, fmgrVars, consoleQueue,
                   console, last>>

\* write_console(">>> Running...\n") of run_threaded
RunningBanner == [stream |-> "banner", of |-> <<>>]

\* run_threaded, on the UI thread
RunThreaded ==
    /\ console' = Append(console, RunningBanner)
    /\ StartThread("_exec", TextOf(doc) \o <<"\n">>)
    /\ UNCHANGED <<edVars, fmVars, histVars, idleQ, fmgrVars, consoleQueue,
                   spoken, last>>

\* _exec(code), on its thread, up to its first console_queue.put: the
\* interpreter ran the code and wrote stdout only ("out"), or stderr too
\* ("err"), or could not be started ("exc").  What it wrote is a function
\* of the code.
Exec(i, outcome) ==
    /\ i \in 1..Len(threads)
    /\ threads[i].target = "_exec" /\ threads[i].pc = "start"
    /\ consoleQueue' =
          Append(consoleQueue,
                 [stream |-> IF outcome = "exc" THEN "exc" ELSE "out",
                  of |-> threads[i].args])
    /\ IF outcome = "err" THEN threads' = [threads EXCEPT ![i].pc = "err"]
       ELSE EndThread(i)
    /\ UNCHANGED <<edVars, fmVars, histVars, idleQ, fmgrVars, console, spoken,
                   last>>

\* _exec(code), on its thread: "if err: self.console_queue.put(...)"
ExecErr(i) ==
    /\ i \in 1..Len(threads)
    /\ threads[i].target = "_exec" /\ threads[i].pc = "err"
    /\ consoleQueue' = Append(consoleQueue,
                              [stream |-> "err", of |-> threads[i].args])
    /\ EndThread(i)
    /\ UNCHANGED <<edVars, fmVars, histVars, idleQ, fmgrVars, console, spoken,
                   last>>

\* _console_loop, the timer callback on the UI thread, with output waiting
ConsoleLoop ==
    /\ consoleQueue # <<>>
    /\ console' = console \o consoleQueue
    /\ consoleQueue' = <<>>
    /\ UNCHANGED <<edVars, fmVars, histVars, idleQ, fmgrVars, threads, spoken,
                   last>>

\* the application is closed and started again; the file stays on disk
NewSession ==
    /\ last # "new_session" /\ last # "init"
    /\ doc' = EmptyDoc
    /\ caret' = 0
    /\ tagNames' = <<>>
    /\ textUndo' = <<>>
    /\ textRedo' = <<>>
    /\ spacing' = 0
    /\ styleMeta' = <<>>
    /\ typingSpec' = NoSpec
    /\ typingEnabled' = FALSE
    /\ defaultFont' = InitDefaultFont
    /\ defaultSize' = InitDefaultSize
    /\ fmtUndo' = <<>>
    /\ fmtRedo' = <<>>
    /\ lastActionKind' = "text"
    /\ lastUndoKind' = "none"
    /\ idleQ' = <<>>
    /\ currentFilePath' = "none"
    /\ openedFromPdf' = FALSE
    /\ dialog' = "none"
    /\ threads' = <<>>
    /\ consoleQueue' = <<>>
    /\ console' = <<>>
    /\ spoken' = <<>>
    /\ last' = "new_session"
    /\ UNCHANGED <<file, docx, txtFile, pdfFile>>

\* ------------------------------------------------------------ specification
\* guards that keep a session finite
RoomForKey == TextLen(doc) < MaxLen /\ Len(idleQ) < MaxIdle
RoomForRecord == Len(fmtUndo) < MaxHist

\* An editing session: typing, every formatting command with and without a
\* selection, and undo / redo.
SessFlags == {"bold"}
SessSizes == {11}
SessFamilies == {"Calibri"}
SessColors == {"#ff0000"}
SessModes == {"fg"}
SessAligns == {"center"}
SessSpacings == {20}
SessKeys == {"x"}

\* what the session remembers of the step just taken: a formatting command
\* leaves the formatting state it started from, anything else forgets it
AfterCommand == pre' = Obs
AfterOther == pre' = NoPre

Next ==
    \/ \E tag \in SessFlags, r \in SelRanges :
          RoomForRecord /\ ToggleFormatWithSel(tag, r[1], r[2]) /\ AfterCommand
    \/ \E tag \in SessFlags : ToggleFormatNoSel(tag) /\ AfterCommand
    \/ \E size \in SessSizes, r \in SelRanges :
          RoomForRecord /\ ApplyFontSizeWithSel(size, r[1], r[2]) /\ AfterCommand
    \/ \E size \in SessSizes : ApplyFontSizeNoSel(size) /\ AfterCommand
    \/ \E name \in SessFamilies, r \in SelRanges :
          RoomForRecord /\ ApplyFontFamilyWithSel(name, r[1], r[2]) /\ AfterCommand
    \/ \E name \in SessFamilies : ApplyFontFamilyNoSel(name) /\ AfterCommand
    \/ \E a \in SessAligns, r \in SelRanges :
          RoomForRecord /\ SetAlignmentWithSel(a, r[1], r[2]) /\ AfterCommand
    \/ \E a \in SessAligns : RoomForRecord /\ SetAlignmentNoSel(a) /\ AfterCommand
    \/ \E m \in SessModes, c \in SessColors, r \in SelRanges :
          RoomForRecord /\ ApplyColorWithSel(m, c, r[1], r[2]) /\ AfterCommand
    \/ ApplyColorNoSel /\ AfterCommand
    \/ \E r \in SelRanges :
          RoomForRecord /\ ClearFormattingWithSel(r[1], r[2]) /\ AfterCommand
    \/ ClearFormattingNoSel /\ AfterCommand
    \/ \E v \in SessSpacings : SetLineSpacing(v) /\ AfterCommand
    \/ \E ch \in SessKeys : RoomForKey /\ KeyPress(ch) /\ AfterOther
    \/ ApplyTypingToNewlyInserted /\ AfterOther
    \/ \E p \in 0..TextLen(doc) : MoveCaret(p) /\ AfterOther
    \/ UndoFormat /\ AfterOther
    \/ UndoText /\ AfterOther
    \/ UndoNothing /\ AfterOther
    \/ RedoFormat /\ AfterOther
    \/ RedoText /\ AfterOther
    \/ RedoNothing /\ AfterOther

Spec == Init /\ [][Next]_vars

\* ------------------------------------------ specification: undo arbitration
\* The commands that decide what undo and redo act on: a command that pushes
\* a record (toggle on a selection, alignment), commands that push none,
\* typing with and without a typing style, and undo / redo.
NextArb ==
    \/ \E tag \in SessFlags, r \in SelRanges :
          RoomForRecord /\ ToggleFormatWithSel(tag, r[1], r[2]) /\ UNCHANGED pre
    \/ \E tag \in SessFlags : ToggleFormatNoSel(tag) /\ UNCHANGED pre
    \/ \E a \in SessAligns : RoomForRecord /\ SetAlignmentNoSel(a) /\ UNCHANGED pre
    \/ ApplyColorNoSel /\ UNCHANGED pre
    \/ ClearFormattingNoSel /\ UNCHANGED pre
    \/ \E v \in SessSpacings : SetLineSpacing(v) /\ UNCHANGED pre
    \/ \E ch \in SessKeys : RoomForKey /\ KeyPress(ch) /\ UNCHANGED pre
    \/ ApplyTypingToNewlyInserted /\ UNCHANGED pre
    \/ UndoFormat /\ UNCHANGED pre
    \/ UndoText /\ UNCHANGED pre
    \/ UndoNothing /\ UNCHANGED pre
    \/ RedoFormat /\ UNCHANGED pre
    \/ RedoText /\ UNCHANGED pre
    \/ RedoNothing /\ UNCHANGED pre

SpecArb == Init /\ [][NextArb]_vars

\* ------------------------------------------------- undo / redo arbitration
\* C6: a formatting command followed immediately by undo() leaves the
\* document's formatting state (tags and line spacing) as it was just before
\* the command, and formatting redo is then available.  Stated for the
\* commands that changed that state.
C6_UndoRestoresPreCommandState ==
    [][(pre # NoPre /\ pre # Obs /\ SafeUndo)
         => (doc' = pre.doc /\ spacing' = pre.spacing /\ CanRedoFormat')]_vars

\* C7: a plain text edit leaves formatting redo unavailable, and formatting
\* redo becomes available again only by a formatting undo.
C7_TextEditDisablesFormatRedo ==
    [][/\ (\E ch \in Keys : KeyPress(ch)) => ~CanRedoFormat'
       /\ (~CanRedoFormat /\ CanRedoFormat') => UndoFormat]_vars

\* a formatting undo happened, a key was typed after it, and the undone
\* record is still on the redo stack
C7_Witness ==
    /\ last = "text"
    /\ fmtRedo # <<>>
    /\ ~CanRedoFormat

\* C8 (as stated): right after every formatting command, with or without a
\* selection, the formatting redo stack is empty.
C8_RedoStackEmptyAfterCommand == last = "format" => fmtRedo = <<>>

\* C8 (amended): right after every formatting command can_redo_format() is
\* false, and a command that pushes an undo record leaves the redo stack
\* empty.
C8_NoFormatRedoAfterCommand ==
    /\ [](last = "format" => ~CanRedoFormat)
    /\ [][(last' = "format" /\ Len(fmtUndo') > Len(fmtUndo))
            => fmtRedo' = <<>>]_vars

\* a formatting command ran after a formatting undo and the undone record is
\* still on the redo stack
C8_Witness ==
    /\ last = "format"
    /\ fmtRedo # <<>>
    /\ lastUndoKind = "none"

MaxStyleLen == 2     \* SpecStyle: characters of text
RoomForStyleKey == TextLen(doc) < MaxStyleLen /\ Len(idleQ) < MaxIdle
StyleFlags == {"bold"}

NextStyle ==
    \/ \E ch \in SessKeys : RoomForStyleKey /\ KeyPress(ch) /\ UNCHANGED pre
    \/ ApplyTypingToNewlyInserted /\ UNCHANGED pre
    \/ \E tag \in StyleFlags : ToggleFormatNoSel(tag) /\ UNCHANGED pre
    \/ \E tag \in StyleFlags, r \in SelRanges :
          RoomForRecord /\ ToggleFormatWithSel(tag, r[1], r[2]) /\ UNCHANGED pre
    \/ UndoFormat /\ UNCHANGED pre
    \/ RedoFormat /\ UNCHANGED pre

SpecStyle == Init /\ [][NextStyle]_vars

\* the resolver's answer at every position of the text
Resolved(st, dflt) ==
    [p \in 0..(TextLen(st.doc) - 1) |-> GetEffectiveSpecAt(st, dflt, p)]

\* C1 (as stated): a toggle decides one boolean for the whole selection: off
\* when every character of it had the flag, on otherwise.
C1_ToggleDecidesOneBoolean ==
    \A tag \in Flags, r \in SelRanges :
        LET after == ToggleFormatSel(St, Dflt, tag, r[1], r[2])
            allOn == \A p \in r[1]..(r[2] - 1) :
                        FlagOf(GetEffectiveSpecAt(St, Dflt, p), tag)
        IN \A p \in r[1]..(r[2] - 1) :
              FlagOf(GetEffectiveSpecAt(after, Dflt, p), tag) = ~allOn

\* C1 (amended): a toggle flips the flag of every character of the selection:
\* a character has the flag afterwards exactly when it did not have it before.
C1_ToggleFlipsEachCharacter ==
    \A tag \in Flags, r \in SelRanges :
        LET after == ToggleFormatSel(St, Dflt, tag, r[1], r[2])
        IN \A p \in r[1]..(r[2] - 1) :
              FlagOf(GetEffectiveSpecAt(after, Dflt, p), tag)
                  = ~FlagOf(GetEffectiveSpecAt(St, Dflt, p), tag)

\* bold has just been toggled on a selection that was partly bold: the part
\* that was bold is not bold now, and another part of the selection is
C1_Witness ==
    /\ last = "format"
    /\ fmtUndo # <<>>
    /\ LET r == fmtUndo[Len(fmtUndo)]
       IN /\ r.kind = "style"
          /\ \E x \in r.before, y \in r.after :
                /\ x[2] = y[2] /\ x[3] = y[3]
                /\ x[1][4] /\ ~y[1][4]
          /\ \E z \in r.after : z[1][4]

\* C2: toggling the same flag twice on the same selection restores the
\* resolved style at every position and the exact combined-style tag ranges,
\* untagged text staying untagged.
C2_DoubleToggleRestores ==
    \A tag \in Flags, r \in SelRanges :
        LET once == ToggleFormatSel(St, Dflt, tag, r[1], r[2])
            twice == ToggleFormatSel(once, Dflt, tag, r[1], r[2])
        IN /\ Resolved(twice, Dflt) = Resolved(St, Dflt)
           /\ SnapshotStyleRanges(twice, 0, Len(doc))
                 = SnapshotStyleRanges(St, 0, Len(doc))

\* ------------------------------------------- specification: styled typing
\* Typing with a typing style switched on and off, at any caret position,
\* clear formatting on selections, and formatting undo / redo.
TypingFlags == {"bold", "italic"}

NextTyping ==
    \/ \E ch \in SessKeys : RoomForStyleKey /\ KeyPress(ch) /\ UNCHANGED pre
    \/ ApplyTypingToNewlyInserted /\ UNCHANGED pre
    \/ \E p \in 0..TextLen(doc) : MoveCaret(p) /\ UNCHANGED pre
    \/ \E tag \in TypingFlags : ToggleFormatNoSel(tag) /\ UNCHANGED pre
    \/ \E r \in SelRanges :
          RoomForRecord /\ ClearFormattingWithSel(r[1], r[2]) /\ UNCHANGED pre
    \/ UndoFormat /\ UNCHANGED pre
    \/ RedoFormat /\ UNCHANGED pre

SpecTyping == Init /\ [][NextTyping]_vars

\* C4: no character carries more than one combined-style tag.
C4_OneStyleTagPerCharacter ==
    \A p \in 1..Len(doc) : Cardinality({t \in doc[p].tags : IsStyleTag(t)}) <= 1

\* --------------------------------------------------- specification: colors
\* Text color and highlight applied to selections, one color after another,
\* with formatting undo / redo.
MaxColorHist == 2    \* SpecColor: entries of the formatting undo stack
RoomForColorRecord == Len(fmtUndo) < MaxColorHist

NextColor ==
    \/ \E ch \in SessKeys : RoomForKey /\ KeyPress(ch) /\ UNCHANGED pre
    \/ \E m \in Modes, c \in Colors, r \in SelRanges :
          RoomForColorRecord /\ ApplyColorWithSel(m, c, r[1], r[2])
              /\ UNCHANGED pre
    \/ ApplyColorNoSel /\ UNCHANGED pre
    \/ UndoFormat /\ UNCHANGED pre
    \/ RedoFormat /\ UNCHANGED pre

SpecColor == Init /\ [][NextColor]_vars

\* C5: no character carries two foreground color tags, nor two background
\* color tags.
C5_OneColorTagPerDimension ==
    \A p \in 1..Len(doc) :
        /\ Cardinality({t \in doc[p].tags : IsFgTag(t)}) <= 1
        /\ Cardinality({t \in doc[p].tags : IsBgTag(t)}) <= 1

\* ------------------------------------------------------------ segmentation
\* every non-empty range of the widget, up to "end"
SegRanges == {r \in (0..Len(doc)) \X (0..Len(doc)) : r[1] < r[2]}

\* C13: the segments of a non-empty range are non-empty, in increasing order,
\* each starting where the previous one ends, the first at the start of the
\* range and the last at its end.
C13_SegmentsPartitionRange ==
    \A r \in SegRanges :
        LET segs == IterStyleSegments(St, Dflt, r[1], r[2])
        IN /\ Len(segs) >= 1
           /\ segs[1].s = r[1]
           /\ segs[Len(segs)].e = r[2]
           /\ \A k \in 1..Len(segs) : segs[k].s < segs[k].e
           /\ \A k \in 1..(Len(segs) - 1) : segs[k].e = segs[k + 1].s

\* the document splits into at least three segments, and some character
\* carries two combined-style tags
C13_Witness ==
    /\ Len(IterStyleSegments(St, Dflt, 0, Len(doc))) >= 3
    /\ \E p \in 1..Len(doc) :
          Cardinality({t \in doc[p].tags : IsStyleTag(t)}) >= 2

MaxTextUndo == 3     \* SpecCodec: entries of the widget's undo stack
RoomForOpen == Len(textUndo) < MaxTextUndo

NextCodec ==
    \/ \E ch \in SessKeys : RoomForStyleKey /\ KeyPress(ch) /\ UNCHANGED pre
    \/ \E tag \in StyleFlags, r \in SelRanges :
          RoomForRecord /\ ToggleFormatWithSel(tag, r[1], r[2]) /\ UNCHANGED pre
    \/ UndoFormat /\ UNCHANGED pre
    \/ SavePwp /\ UNCHANGED pre
    \/ RoomForOpen /\ OpenPwp /\ UNCHANGED pre
    \/ NewSession /\ UNCHANGED pre

SpecCodec == Init /\ [][NextCodec]_vars

\* C3: a toggle on a selection changes only the targeted flag inside the
\* selection and leaves the effective spec outside the selection as it was,
\* also when the tags came from a loaded file.
C3_ToggleChangesOnlyTargetedFlag ==
    \A tag \in Flags, r \in SelRanges :
        LET after == ToggleFormatSel(St, Dflt, tag, r[1], r[2])
        IN \A p \in 0..(TextLen(doc) - 1) :
              LET a == GetEffectiveSpecAt(St, Dflt, p)
                  b == GetEffectiveSpecAt(after, Dflt, p)
              IN IF r[1] <= p /\ p < r[2]
                 THEN /\ \A f \in Flags \ {tag} : FlagOf(b, f) = FlagOf(a, f)
                      /\ b.family = a.family
                      /\ b.size = a.size
                 ELSE b = a

\* C10: saving as .pwp and loading the file, into this session or into a
\* freshly started one, gives the same text and the same effective spec at
\* every position.
C10_NativeRoundTripKeepsStyles ==
    LET payload == SavePwpPayload(doc, tagNames)
        same == [doc |-> OpenPwpDoc(payload),
                 names |-> OpenPwpNames(tagNames, payload),
                 meta |-> styleMeta]
        fresh == [doc |-> OpenPwpDoc(payload),
                  names |-> OpenPwpNames(<<>>, payload),
                  meta |-> <<>>]
    IN /\ TextOf(same.doc) = TextOf(doc)
       /\ Resolved(same, Dflt) = Resolved(St, Dflt)
       /\ Resolved(fresh, <<InitDefaultFont, InitDefaultSize>>)
             = Resolved(St, Dflt)

\* ---------------------------------------------- specification: opening files
\* A document is typed and made bold, saved as .pwp, and files are opened
\* over it: the saved file, a PDF, and .pwp files this session did not write.
PdfTexts == {<<"p">>}

NextOpen ==
    \/ \E ch \in SessKeys : RoomForKey /\ KeyPress(ch) /\ UNCHANGED pre
    \/ \E tag \in StyleFlags, r \in SelRanges :
          RoomForRecord /\ ToggleFormatWithSel(tag, r[1], r[2]) /\ UNCHANGED pre
    \/ SavePwp /\ UNCHANGED pre
    \/ RoomForOpen /\ OpenPwp /\ UNCHANGED pre
    \/ \E path \in ForeignPaths :
          RoomForOpen /\ OpenFilePwp(path) /\ UNCHANGED pre
    \/ \E content \in PdfTexts :
          RoomForOpen /\ OpenPdf(content) /\ UNCHANGED pre

SpecOpen == Init /\ [][NextOpen]_vars

\* C11: opening a .pwp file whose payload is not an object with version 1
\* ends with the error box and leaves the editor's text and tag ranges,
\* current_file_path and the opened-from-PDF flag as they were.
C11_UnsupportedVersionLoadsNothing ==
    [][\A path \in ForeignPaths :
          (~SupportedPwp(Disk(path)) /\ OpenFilePwp(path))
            => /\ dialog' = "Unsupported .pwp file version"
               /\ UNCHANGED <<doc, tagNames, currentFilePath, openedFromPdf>>]_vars

\* an unsupported file was opened over a document imported from a PDF
C11_Witness ==
    /\ dialog = "Unsupported .pwp file version"
    /\ openedFromPdf
    /\ currentFilePath = "none"
    /\ TextLen(doc) > 0

\* C12: an open that ends with an error leaves the editor's text and tag
\* ranges and current_file_path as they were before the call.
C12_FailedOpenLoadsNothing ==
    [][\A path \in ForeignPaths :
          (OpenFilePwp(path) /\ dialog' # "none")
            => UNCHANGED <<doc, currentFilePath>>]_vars

\* ------------------------------------------------------ specification: lists
\* A text file is opened, the caret is placed, bullets are toggled on the
\* caret's line or on selected lines, and Return is pressed.
MaxListUndo == 2     \* SpecList, SpecNumbered: entries of the widget's undo stack

ListLines ==
    {<<>>, <<"x">>, <<"*", " ">>, <<"*", " ", "x">>, <<" ", "*", " ", "x">>,
     <<"1", ".", " ">>, <<"1", ".", " ", "x">>, <<"9", ".", " ", "x">>}

ListTexts ==
    ListLines \cup {a \o <<"\n">> \o b : a \in ListLines, b \in ListLines}

RoomForListEdit == Len(textUndo) < MaxListUndo

NextList ==
    \/ \E content \in ListTexts :
          currentFilePath = "none" /\ OpenText(content) /\ UNCHANGED pre
    \/ \E p \in 0..TextLen(doc) : MoveCaret(p) /\ UNCHANGED pre
    \/ RoomForListEdit /\ ToggleListNoSel /\ UNCHANGED pre
    \/ \E r \in SelRanges :
          RoomForListEdit /\ ToggleListWithSel(r[1], r[2]) /\ UNCHANGED pre
    \/ RoomForListEdit /\ ReturnKey /\ UNCHANGED pre

SpecList == Init /\ [][NextList]_vars

\* every block of consecutive lines of the document
LineBlocks ==
    {b \in (1..NumLines(doc)) \X (1..NumLines(doc)) : b[1] <= b[2]}

BlockLines(b) == [k \in 1..(b[2] - b[1] + 1) |-> b[1] + k - 1]

\* C15: toggle_list invoked twice on the same block of lines gives every
\* non-empty line of the block the text, and so the marker, it had before.
C15_DoubleToggleListRestores ==
    \A b \in LineBlocks :
        LET once == ToggleListOn(Ed, BlockLines(b))
            twice == ToggleListOn(once, BlockLines(b))
        IN \A ln \in b[1]..b[2] :
              ~IsBlank(LineText(doc, ln))
                 => LineText(twice.doc, ln) = LineText(doc, ln)

\* the line a caret position is on, and what a list marker on it looks like
CaretLine(p) == NLBefore(doc, p) + 1
IndentOf(txt) == SubSeq(txt, 1, LeadingBlanks(txt))
TailOf(txt) == Drop(txt, LeadingBlanks(txt))
IsBulletLine(txt) == StartsWith(TailOf(txt), Bullet)
IsNumberedLine(txt) == ~IsBulletLine(txt) /\ NumLen(TailOf(txt)) > 0
NumberOf(txt) == DigitsToNat(SubSeq(TailOf(txt), 1, LeadingDigits(TailOf(txt))))
ContentOf(txt) ==
    IF IsBulletLine(txt) THEN Drop(TailOf(txt), Len(Bullet))
    ELSE Drop(TailOf(txt), NumLen(TailOf(txt)))

\* C16: Return on a list line with non-empty content continues the list: the
\* line after the break begins with the same indentation followed by the
\* bullet marker on a bullet line, by the decimal numeral of n+1, a dot and a
\* space on a line numbered n.
C16_ReturnContinuesList ==
    \A p \in 0..TextLen(doc) :
        LET txt == LineText(doc, CaretLine(p))
            after == HandleReturnKey([Ed EXCEPT !.caret = p])
            newLine == LineText(after.doc, CaretLine(p) + 1)
        IN /\ (IsBulletLine(txt) /\ ~IsBlank(ContentOf(txt)))
                => StartsWith(newLine, IndentOf(txt) \o Bullet)
           /\ (IsNumberedLine(txt) /\ ~IsBlank(ContentOf(txt)))
                => LET rest == Drop(newLine, Len(IndentOf(txt)))
                       nd == LeadingDigits(rest)
                   IN /\ StartsWith(newLine, IndentOf(txt))
                      /\ nd > 0
                      /\ rest[1] # "0"
                      /\ DigitsToNat(SubSeq(rest, 1, nd)) = NumberOf(txt) + 1
                      /\ StartsWith(Drop(rest, nd), <<".", " ">>)

\* Return has just been pressed on item 9 of a numbered list and on no other
\* line: the new line is item 10
C16_Witness ==
    /\ last = "return_key"
    /\ NumLines(doc) = 2
    /\ StartsWith(LineText(doc, 1), <<"9", ".", " ">>)
    /\ StartsWith(LineText(doc, 2), <<"1", "0", ".", " ">>)
    /\ caret = LineStart(doc, 2) + 4

\* C17: Return on a list line that holds only its marker, at any caret
\* position on the line, removes the marker from the line and leaves the new
\* line plain.
C17_ReturnOnEmptyItemExitsList ==
    \A p \in 0..TextLen(doc) :
        LET txt == LineText(doc, CaretLine(p))
            after == HandleReturnKey([Ed EXCEPT !.caret = p])
            oldLine == LineText(after.doc, CaretLine(p))
            newLine == LineText(after.doc, CaretLine(p) + 1)
        IN ((IsBulletLine(txt) \/ IsNumberedLine(txt)) /\ IsBlank(ContentOf(txt)))
              => /\ ~IsBulletLine(oldLine) /\ ~IsNumberedLine(oldLine)
                 /\ ~IsBulletLine(newLine) /\ ~IsNumberedLine(newLine)

\* C31: toggle_list on a block of lines.  When every non-empty line of the
\* block starts, after its indentation, with the bullet marker, the marker is
\* removed from each of them.  Otherwise a line that starts with the marker
\* keeps its text, and every other non-empty line becomes its indentation, one
\* marker, and its text without a numeric prefix.  A blank line keeps its text
\* and the document keeps its number of lines.
C31_ToggleListDecisionRule ==
    \A b \in LineBlocks :
        LET after == ToggleListOn(Ed, BlockLines(b)).doc
            nonEmpty == {ln \in b[1]..b[2] : ~IsBlank(LineText(doc, ln))}
            allBulleted == \A ln \in nonEmpty : IsBulletLine(LineText(doc, ln))
        IN /\ NumLines(after) = NumLines(doc)
           /\ \A ln \in b[1]..b[2] :
                 LET txt == LineText(doc, ln)
                     now == LineText(after, ln)
                 IN IF ln \notin nonEmpty THEN now = txt
                    ELSE IF allBulleted
                    THEN now = IndentOf(txt) \o Drop(TailOf(txt), Len(Bullet))
                    ELSE IF IsBulletLine(txt) THEN now = txt
                    ELSE now = IndentOf(txt) \o Bullet \o ContentOf(txt)

\* toggle_list has just run on the lines "1. x" and "* x": the number of the
\* first was deleted and the marker inserted, the second still has its one
\* marker
C31_Witness ==
    /\ last = "toggle_list"
    /\ NumLines(doc) = 2
    /\ LineText(doc, 1) = Bullet \o <<"x">>
    /\ LineText(doc, 2) = Bullet \o <<"x">>
    /\ Len(textUndo) = 3
    /\ textUndo[2] = [pos |-> 0, ins |-> <<>>, del |-> <<"1", ".", " ">>]
    /\ textUndo[3] = [pos |-> 0, del |-> <<>>, ins |-> Bullet]

\* ------------------------------------------------ specification: numbering
\* A text file of up to three lines is opened, the caret is placed, and
\* numbering or bullets are toggled on the caret's line or on selected lines.
NumberedLines ==
    {<<>>, <<"x">>, <<"*", " ", "x">>, <<"9", ".", " ", "x">>,
     <<" ", "1", ".", " ">>}

NumberedTexts ==
    NumberedLines
    \cup {a \o <<"\n">> \o b : a \in NumberedLines, b \in NumberedLines}
    \cup {a \o <<"\n">> \o b \o <<"\n">> \o c :
            a \in NumberedLines \ {<<>>}, b \in {<<>>, <<"x">>},
            c \in NumberedLines \ {<<>>}}

NextNumbered ==
    \/ \E content \in NumberedTexts :
          currentFilePath = "none" /\ OpenText(content) /\ UNCHANGED pre
    \/ \E p \in 0..TextLen(doc) : MoveCaret(p) /\ UNCHANGED pre
    \/ RoomForListEdit /\ ToggleNumberedListNoSel /\ UNCHANGED pre
    \/ \E r \in SelRanges :
          RoomForListEdit /\ ToggleNumberedListWithSel(r[1], r[2])
          /\ UNCHANGED pre
    \/ RoomForListEdit /\ ToggleListNoSel /\ UNCHANGED pre

SpecNumbered == Init /\ [][NextNumbered]_vars

\* C32: toggle_numbered_list on a block of lines.  When some non-empty line
\* of the block is not numbered, the k-th non-empty line of the block becomes
\* its indentation, the numeral of k, a dot, a space, and its text without the
\* bullet or number it had.  When every non-empty line is numbered, each
\* loses its numeric prefix.  Blank lines keep their text.
C32_ToggleNumberedListRule ==
    \A b \in LineBlocks :
        LET after == ToggleNumberedListOn(Ed, BlockLines(b)).doc
            nonEmpty == {ln \in b[1]..b[2] : ~IsBlank(LineText(doc, ln))}
            allNumbered == \A ln \in nonEmpty :
                              NumLen(TailOf(LineText(doc, ln))) > 0
        IN /\ NumLines(after) = NumLines(doc)
           /\ \A ln \in b[1]..b[2] :
                 LET txt == LineText(doc, ln)
                     now == LineText(after, ln)
                     k == Cardinality({j \in nonEmpty : j <= ln})
                 IN IF ln \notin nonEmpty THEN now = txt
                    ELSE IF allNumbered
                    THEN now = IndentOf(txt)
                               \o Drop(TailOf(txt), NumLen(TailOf(txt)))
                    ELSE k <= 9
                         /\ now = IndentOf(txt) \o <<DigitChars[k + 1], ".", " ">>
                                  \o ContentOf(txt)

\* toggle_numbered_list has just run on the lines "9. x", "" and "* x": the
\* first is item 1, the empty line is unchanged, the third is item 2
C32_Witness ==
    /\ last = "toggle_numbered_list"
    /\ NumLines(doc) = 3
    /\ LineText(doc, 1) = <<"1", ".", " ", "x">>
    /\ LineText(doc, 2) = <<>>
    /\ LineText(doc, 3) = <<"2", ".", " ", "x">>
    /\ Len(textUndo) = 5
    /\ textUndo[2].del = Bullet
    /\ textUndo[4].del = <<"9", ".", " ">>

\* -------------------------------------------- specification: clear formatting
\* Typed text is made bold, colored and highlighted on selections, and
\* formatting is cleared on selections, with formatting undo / redo.
NextClear ==
    \/ \E ch \in SessKeys : RoomForStyleKey /\ KeyPress(ch) /\ UNCHANGED pre
    \/ \E tag \in StyleFlags, r \in SelRanges :
          RoomForColorRecord /\ ToggleFormatWithSel(tag, r[1], r[2])
              /\ UNCHANGED pre
    \/ \E m \in Modes, c \in SessColors, r \in SelRanges :
          RoomForColorRecord /\ ApplyColorWithSel(m, c, r[1], r[2])
              /\ UNCHANGED pre
    \/ \E r \in SelRanges :
          RoomForColorRecord /\ ClearFormattingWithSel(r[1], r[2])
              /\ UNCHANGED pre
    \/ UndoFormat /\ UNCHANGED pre
    \/ RedoFormat /\ UNCHANGED pre

SpecClear == Init /\ [][NextClear]_vars

IsAttributeTag(t) == IsStyleTag(t) \/ IsFgTag(t) \/ IsBgTag(t)

\* C18: clear_formatting on a selection leaves no combined-style, foreground
\* or background tag on any position of the selection, and leaves the tags of
\* every position outside the selection as they were.
C18_ClearRemovesInsideKeepsOutside ==
    [][\A r \in SelRanges :
          ClearFormattingWithSel(r[1], r[2])
            => \A p \in 0..(Len(doc) - 1) :
                  IF r[1] <= p /\ p < r[2]
                  THEN \A t \in TagsAt(doc', p) : ~IsAttributeTag(t)
                  ELSE TagsAt(doc', p) = TagsAt(doc, p)]_vars

\* formatting has just been cleared on the first character of a text that was
\* colored as a whole: the first character has no color, the second has it
C18_Witness ==
    /\ last = "format"
    /\ fmtUndo # <<>>
    /\ fmtUndo[Len(fmtUndo)].kind = "clear"
    /\ \E x \in fmtUndo[Len(fmtUndo)].before : IsFgTag(x[1])
    /\ TextLen(doc) = 2
    /\ \A t \in TagsAt(doc, 0) : ~IsAttributeTag(t)
    /\ \E t \in TagsAt(doc, 1) : IsFgTag(t)

\* C20: the arbitration state is always one of (text, no undo pending),
\* (format, no undo pending), (format, format-undo pending): the last action
\* is exactly one of text and format, and a pending format-undo never
\* coexists with a last action of text.
C20_ArbitrationStates ==
    <<lastActionKind, lastUndoKind>>
        \in {<<"text", "none">>, <<"format", "none">>, <<"format", "format">>}

\* typing, then a formatting command and its undo: the state has been each
\* of the three, and is now format-undo pending
C20_Witness ==
    /\ lastActionKind = "format" /\ lastUndoKind = "format"
    /\ last = "undo_format"
    /\ fmtRedo # <<>>
    /\ textUndo # <<>>

\* what undo() does when formatting has a record to undo: the top record
\* leaves the undo stack for the redo stack, its inverse is applied, and a
\* format-undo is pending
FormatUndone ==
    LET top == fmtUndo[Len(fmtUndo)]
    IN /\ fmtUndo' = SubSeq(fmtUndo, 1, Len(fmtUndo) - 1)
       /\ fmtRedo' = Append(fmtRedo, top)
       /\ doc' = ApplyUndo(St, top).doc
       /\ lastUndoKind' = "format"

\* what the spec says of every other undo(): the formatting stacks stay and
\* the last action is a text edit with no format-undo pending
TextUndone ==
    /\ UNCHANGED <<fmtUndo, fmtRedo>>
    /\ lastActionKind' = "text"
    /\ lastUndoKind' = "none"

\* C21 (as stated): undo() undoes the top formatting record when the last
\* action was a formatting action and the formatting undo stack is not
\* empty; in every other case, the case of a text buffer with nothing to
\* undo included, the formatting stacks stay and the last action becomes a
\* text edit with no format-undo pending.
C21_UndoDispatch ==
    /\ [][SafeUndo => IF CanUndoFormat THEN FormatUndone ELSE TextUndone]_vars
    /\ []((~CanUndoFormat /\ textUndo = <<>>)
            => (lastActionKind = "text" /\ lastUndoKind = "none"))

\* C21 (amended): as above when formatting or the text buffer has something
\* to undo; when neither has, undo() changes nothing.
C21_UndoDispatchWhenUndoable ==
    [][/\ SafeUndo
          => IF CanUndoFormat THEN FormatUndone
             ELSE IF textUndo # <<>> THEN TextUndone
             ELSE UNCHANGED vars
       /\ (fmtUndo' # fmtUndo /\ Len(fmtUndo') < Len(fmtUndo))
          => (CanUndoFormat /\ FormatUndone)]_vars

\* a formatting undo, then a text undo with the undone record still on the
\* redo stack
C21_Witness ==
    /\ last = "undo_text"
    /\ fmtRedo # <<>>
    /\ lastActionKind = "text" /\ lastUndoKind = "none"

\* C22: toggle_format, a text color or highlight, and clear_formatting, run
\* with nothing selected, leave every tag range and both formatting history
\* stacks as they were.
C22_NoSelectionCommandsChangeNoRange ==
    [][((\E tag \in Flags : ToggleFormatNoSel(tag))
          \/ ApplyColorNoSel \/ ClearFormattingNoSel)
         => UNCHANGED <<doc, fmtUndo, fmtRedo>>]_vars

\* styled text and an undone record on the redo stack, right after a command
\* that pushed nothing and left the line spacing alone
C22_Witness ==
    /\ last = "format"
    /\ lastUndoKind = "none"
    /\ fmtRedo # <<>>
    /\ spacing = 0
    /\ \E p \in 0..(TextLen(doc) - 1) : \E t \in TagsAt(doc, p) : IsStyleTag(t)

\* C25: a flag toggle with nothing selected and no pending spec starts from
\* the resolved style of the character left of the caret, or from the
\* default at the start of the text, and stores that base with the one flag
\* flipped (nothing when the result is the default).
C25_ToggleBaseIsLeftOfCaret ==
    [][\A tag \in TypingFlags :
          (typingSpec = NoSpec /\ ToggleFormatNoSel(tag))
            => LET base == IF caret = 0 THEN DefaultSpec(Dflt)
                           ELSE GetEffectiveSpecAt(St, Dflt, caret - 1)
                   want == FlipFlag(base, tag)
               IN typingSpec' = IF IsDefaultSpec(want, Dflt) THEN NoSpec
                                ELSE want]_vars

\* ------------------------------------------- specification: typing fonts
\* Style commands with nothing selected (flags, font size, font family),
\* between keys typed at the end of the text.
FontSizes == {InitDefaultSize, 14}
FontFamilies == {InitDefaultFont, "Arial"}

NextFont ==
    \/ \E ch \in SessKeys : RoomForStyleKey /\ KeyPress(ch) /\ UNCHANGED pre
    \/ ApplyTypingToNewlyInserted /\ UNCHANGED pre
    \/ \E tag \in StyleFlags : ToggleFormatNoSel(tag) /\ UNCHANGED pre
    \/ \E size \in FontSizes : ApplyFontSizeNoSel(size) /\ UNCHANGED pre
    \/ \E name \in FontFamilies : ApplyFontFamilyNoSel(name) /\ UNCHANGED pre

SpecFont == Init /\ [][NextFont]_vars

\* C23: a style command with nothing selected leaves the resolver's answer
\* for every character already in the text as it was.
C23_NoSelectionKeepsResolvedStyles ==
    [][((\E size \in FontSizes : ApplyFontSizeNoSel(size))
          \/ (\E name \in FontFamilies : ApplyFontFamilyNoSel(name))
          \/ (\E tag \in Flags : ToggleFormatNoSel(tag)))
         => Resolved([doc |-> doc', names |-> tagNames', meta |-> styleMeta'],
                     <<defaultFont', defaultSize'>>)
              = Resolved(St, Dflt)]_vars

\* C24: a stored pending typing spec is never the ambient default.
C24_PendingSpecIsNotDefault ==
    typingSpec # NoSpec => ~IsDefaultSpec(typingSpec, Dflt)

\* ------------------------------------------------ specification: export
\* A text file is opened, formatted on selections (bold, colors, alignment)
\* and saved as .docx.
MaxExportHist == 2   \* SpecExport: entries of the formatting undo stack
RoomForExportRecord == Len(fmtUndo) < MaxExportHist
ExportTexts == {<<"a", "b">>, <<"\n", "a", "b">>}
ExportAligns == {"center"}

NextExport ==
    \/ \E content \in ExportTexts :
          currentFilePath = "none" /\ OpenText(content) /\ UNCHANGED pre
    \/ \E tag \in StyleFlags, r \in SelRanges :
          /\ RoomForExportRecord
          /\ ToggleFormatWithSel(tag, r[1], r[2]) /\ UNCHANGED pre
    \/ \E m \in Modes, r \in SelRanges :
          /\ RoomForExportRecord
          /\ ApplyColorWithSel(m, "#ff0000", r[1], r[2]) /\ UNCHANGED pre
    \/ \E r \in SelRanges :
          /\ RoomForExportRecord
          /\ ApplyColorWithSel("fg", "#0000ff", r[1], r[2]) /\ UNCHANGED pre
    \/ \E a \in ExportAligns, r \in SelRanges :
          /\ RoomForExportRecord
          /\ SetAlignmentWithSel(a, r[1], r[2]) /\ UNCHANGED pre
    \/ SaveDocx /\ UNCHANGED pre

SpecExport == Init /\ [][NextExport]_vars

\* the fields of a run that the export sets from the style and the colors
RunFields(run) ==
    <<run.bold, run.italic, run.underline, run.strike, run.family, run.size,
      run.fg, run.bg>>

\* C26: the exported document has no two consecutive runs of one paragraph
\* with equal bold, italic, underline, strike, family, size, foreground and
\* background.
C26_ExportCoalescesEqualRuns ==
    docx # NoDocx
      => \A i \in 1..Len(docx) :
            \A k \in 1..(Len(docx[i].runs) - 1) :
               RunFields(docx[i].runs[k]) # RunFields(docx[i].runs[k + 1])

RECURSIVE Concat(_)
Concat(seqs) == IF seqs = <<>> THEN <<>> ELSE Head(seqs) \o Concat(Tail(seqs))

\* C27: saving as .docx writes one paragraph for each line of the text, in
\* line order; the run texts of paragraph i, concatenated, are the text of
\* line i (no runs for an empty line); and paragraph i has the alignment of
\* line i, left when the line has none.
C27_ExportParagraphPerLine ==
    [][SaveDocx
         => /\ Len(docx') = NumLines(doc)
            /\ \A i \in 1..NumLines(doc) :
                  /\ Concat([k \in 1..Len(docx'[i].runs) |->
                                docx'[i].runs[k].text]) = LineText(doc, i)
                  /\ \A k \in 1..Len(docx'[i].runs) :
                        docx'[i].runs[k].text # <<>>
                  /\ docx'[i].alignment
                        = IF GetLineAlign(doc, i) = "none" THEN "left"
                          ELSE GetLineAlign(doc, i)]_vars

\* a saved document with an empty first paragraph and a centered second
\* paragraph of two runs
C27_Witness ==
    /\ docx # NoDocx
    /\ Len(docx) = 2
    /\ docx[1].runs = <<>>
    /\ docx[2].alignment = "center"
    /\ Len(docx[2].runs) = 2
    /\ currentFilePath = DocxPath

\* --------------------------------------- specification: command and undo
\* What the session remembers of a formatting command on a range while the
\* command is the one undo and redo act on: the text as the command found
\* it and as it left it, and the range.
AfterRangeCommand(s, e) ==
    pre' = [before |-> doc, after |-> doc', s |-> s, e |-> e]

AfterUndo == pre' = IF last = "format" THEN pre ELSE NoPre
AfterRedo == pre' = IF last = "undo_format" THEN pre ELSE NoPre

\* ---------------------------------------------- specification: alignment
\* A text file of several lines is opened and its lines are aligned, on
\* selections and on the caret's line, with undo / redo.
MaxAlignHist == 2    \* SpecAlign: entries of the formatting undo stack
RoomForAlignRecord == Len(fmtUndo) < MaxAlignHist
AlignTexts == {<<"a", "\n", "b">>, <<"\n", "a", "\n">>}

NextAlign ==
    \/ \E content \in AlignTexts :
          currentFilePath = "none" /\ OpenText(content) /\ AfterOther
    \/ \E k \in 1..Len(AlignNames), r \in SelRanges :
          /\ RoomForAlignRecord
          /\ SetAlignmentWithSel(AlignNames[k], r[1], r[2])
          /\ AfterRangeCommand(r[1], r[2])
    \/ \E k \in 1..Len(AlignNames) :
          /\ RoomForAlignRecord
          /\ SetAlignmentNoSel(AlignNames[k])
          /\ AfterRangeCommand(caret, caret)
    \/ UndoFormat /\ AfterUndo
    \/ RedoFormat /\ AfterRedo

SpecAlign == Init /\ [][NextAlign]_vars

\* the lines a range covers: those holding one of its characters, or the
\* line of the caret when the range is empty
CoveredLines(d, s, e) ==
    IF s = e THEN {NLBefore(d, s) + 1}
    ELSE {NLBefore(d, p) + 1 : p \in s..(e - 1)}

AllLines(d) == 1..NumLines(d)

\* a step of set_alignment: the one command of the session that pushes a
\* record; the record holds the value
AlignmentSet == last' = "format" /\ Len(fmtUndo') = Len(fmtUndo) + 1

\* C28: set_alignment(value) gives value to every line covered by the
\* selection (or to the caret's line), a line whose column 0 ends the
\* selection excluded, and to no other line; the format undo that follows
\* gives every line the alignment it had before, and the redo after that
\* gives every line the alignment the command left.
C28_AlignmentCoversLinesAndUndoes ==
    [][/\ AlignmentSet
             => \A ln \in AllLines(doc) :
                   GetLineAlign(doc', ln)
                     = IF ln \in CoveredLines(doc, pre'.s, pre'.e)
                       THEN fmtUndo'[Len(fmtUndo')].align
                       ELSE GetLineAlign(doc, ln)
       /\ (UndoFormat /\ last = "format" /\ pre # NoPre)
             => \A ln \in AllLines(doc) :
                   GetLineAlign(doc', ln) = GetLineAlign(pre.before, ln)
       /\ (RedoFormat /\ last = "undo_format" /\ pre # NoPre)
             => \A ln \in AllLines(doc) :
                   GetLineAlign(doc', ln) = GetLineAlign(pre.after, ln)]_vars

\* two lines, centered and unaligned, were both aligned right, and the
\* command has been undone
C28_Witness ==
    /\ last = "undo_format"
    /\ pre # NoPre
    /\ NumLines(doc) = 2
    /\ GetLineAlign(doc, 1) = "center" /\ GetLineAlign(doc, 2) = "none"
    /\ GetLineAlign(pre.after, 1) = "right"
    /\ GetLineAlign(pre.after, 2) = "right"
    /\ fmtUndo # <<>>

\* C40: no character carries two of the tags left, center and right, and on
\* every line the formatter and the exporter read the same alignment.
C40_AlignmentExclusivePerLine ==
    /\ \A p \in 0..(Len(doc) - 1) :
          Cardinality(TagsAt(doc, p) \cap AlignTags) <= 1
    /\ \A ln \in 1..NumLines(doc) :
          GetLineAlign(doc, ln) = GetAlignmentForLine(doc, ln)

\* a line that was aligned left was aligned right, and that command has
\* been undone and redone
C40_Witness ==
    /\ last = "redo_format"
    /\ pre # NoPre
    /\ \E ln \in 1..NumLines(doc) :
          /\ GetLineAlign(pre.before, ln) = "left"
          /\ GetLineAlign(doc, ln) = "right"
          /\ GetAlignmentForLine(doc, ln) = "right"

\* ------------------------------------- specification: colors and clears
\* Text is typed, plain or bold; then it is made bold, colored, centered and
\* cleared on selections; a command is undone and redone, and followed by
\* another only when nothing is left to redo.
MaxRestoreHist == 2  \* SpecRestore: entries of the formatting undo stack
RoomForRestoreRecord ==
    Len(fmtUndo) < MaxRestoreHist /\ fmtRedo = <<>> /\ idleQ = <<>>
StillTyping == fmtUndo = <<>> /\ fmtRedo = <<>>

NextRestore ==
    \/ \E ch \in SessKeys :
          StillTyping /\ RoomForStyleKey /\ KeyPress(ch) /\ AfterOther
    \/ ApplyTypingToNewlyInserted /\ AfterOther
    \/ \E tag \in StyleFlags :
          StillTyping /\ ToggleFormatNoSel(tag) /\ AfterOther
    \/ \E tag \in StyleFlags, r \in SelRanges :
          /\ RoomForRestoreRecord
          /\ ToggleFormatWithSel(tag, r[1], r[2])
          /\ AfterRangeCommand(r[1], r[2])
    \/ \E m \in Modes, c \in Colors, r \in SelRanges :
          /\ RoomForRestoreRecord
          /\ ApplyColorWithSel(m, c, r[1], r[2])
          /\ AfterRangeCommand(r[1], r[2])
    \/ \E a \in SessAligns, r \in SelRanges :
          /\ RoomForRestoreRecord
          /\ SetAlignmentWithSel(a, r[1], r[2])
          /\ AfterRangeCommand(r[1], r[2])
    \/ \E r \in SelRanges :
          /\ RoomForRestoreRecord
          /\ ClearFormattingWithSel(r[1], r[2])
          /\ AfterRangeCommand(r[1], r[2])
    \/ UndoFormat /\ AfterUndo
    \/ RedoFormat /\ AfterRedo

SpecRestore == Init /\ [][NextRestore]_vars

\* the command undo would act on is the one the session remembers, and it
\* pushed a record of this kind
UndoesCommand(kind) ==
    /\ UndoFormat /\ last = "format" /\ pre # NoPre
    /\ fmtUndo[Len(fmtUndo)].kind = kind

RedoesCommand(kind) ==
    /\ RedoFormat /\ last = "undo_format" /\ pre # NoPre
    /\ fmtRedo[Len(fmtRedo)].kind = kind

\* C29: a color applied to a selection adds that color's tag to every
\* character of the selection and changes no other tag anywhere; the format
\* undo that follows leaves every character with the tags it had before the
\* command.
C29_ColorAddsOneTagAndUndoes ==
    [][/\ \A m \in Modes, c \in Colors, r \in SelRanges :
             ApplyColorWithSel(m, c, r[1], r[2])
               => \A p \in 0..(Len(doc) - 1) :
                     TagsAt(doc', p)
                       = IF r[1] <= p /\ p < r[2]
                         THEN TagsAt(doc, p) \cup {ColorTagName(m, c)}
                         ELSE TagsAt(doc, p)
       /\ UndoesCommand("color") => doc' = pre.before]_vars

\* a foreground color was applied over a text whose first character had it
\* already and whose second character was bold or highlighted, and the
\* command has been undone
C29_Witness ==
    /\ last = "undo_format"
    /\ pre # NoPre
    /\ fmtRedo[Len(fmtRedo)].kind = "color"
    /\ TextLen(doc) = 2
    /\ pre.s = 0 /\ pre.e = 2
    /\ \E t \in TagsAt(doc, 0) :
          /\ IsFgTag(t)
          /\ t \notin TagsAt(doc, 1)
          /\ t \in TagsAt(pre.after, 1)
    /\ \E t \in TagsAt(doc, 1) : IsStyleTag(t) \/ IsBgTag(t)

\* C30: the format undo that follows clear_formatting on R leaves every
\* character with the tags it had before the clear, and the redo after that
\* leaves the characters of R with no tag and the others as they were.
C30_ClearUndoRestoresSnapshot ==
    [][/\ UndoesCommand("clear") => doc' = pre.before
       /\ RedoesCommand("clear")
             => \A p \in 0..(Len(doc) - 1) :
                   TagsAt(doc', p)
                     = IF pre.s <= p /\ p < pre.e THEN {}
                       ELSE TagsAt(doc, p)]_vars

\* a bold character with a color was cleared, and the clear has been undone
C30_Witness ==
    /\ last = "undo_format"
    /\ pre # NoPre
    /\ fmtRedo[Len(fmtRedo)].kind = "clear"
    /\ \E p \in 0..(TextLen(doc) - 1) :
          /\ pre.s <= p /\ p < pre.e
          /\ \E t \in TagsAt(doc, p) : IsStyleTag(t)
          /\ \E t \in TagsAt(doc, p) : IsFgTag(t) \/ IsBgTag(t)
          /\ TagsAt(pre.after, p) = {}


\* Typing with a pending typing style, at the caret or over a selection.  The
\* user clicks, selects and uses the ribbon only when the idle callbacks of
\* the keys typed so far have run.
Settled == idleQ = <<>>
MaxPendingUndo == 3  \* SpecPending: entries of the widget's undo stack
RoomForPendingKey == Len(textUndo) < MaxPendingUndo

\* what the session remembers of the last key: where its character went and
\* the pending style at that moment, if one was set
AfterKey(at) ==
    pre' = IF typingEnabled /\ typingSpec # NoSpec
           THEN [at |-> at, spec |-> typingSpec] ELSE NoPre

NextPending ==
    \/ \E ch \in SessKeys :
          /\ RoomForStyleKey /\ RoomForPendingKey
          /\ KeyPress(ch) /\ AfterKey(caret)
    \/ \E ch \in SessKeys, r \in SelRanges :
          /\ Settled /\ RoomForPendingKey
          /\ KeyPressOverSel(ch, r[1], r[2]) /\ AfterKey(r[1])
    \/ ApplyTypingToNewlyInserted /\ UNCHANGED pre
    \/ \E p \in 0..TextLen(doc) : Settled /\ MoveCaret(p) /\ UNCHANGED pre
    \/ \E tag \in TypingFlags :
          Settled /\ ToggleFormatNoSel(tag) /\ UNCHANGED pre

SpecPending == Init /\ [][NextPending]_vars

\* C19: when the idle callback of a character inserted under a pending
\* typing style has run, the character carries the tag of that style as its
\* only combined-style tag, no other position changed its tags, and the
\* pending style is still set with the same value.
C19_PendingStyleAppliedToInsertion ==
    [][(ApplyTypingToNewlyInserted /\ Len(idleQ) = 1 /\ pre # NoPre)
         => /\ \A p \in 0..(Len(doc) - 1) :
                  IF p = pre.at
                  THEN {t \in TagsAt(doc', p) : IsStyleTag(t)}
                          = {TagOfSpec(pre.spec)}
                  ELSE TagsAt(doc', p) = TagsAt(doc, p)
            /\ typingEnabled'
            /\ typingSpec' = pre.spec]_vars

\* ------------------------------------------------- specification: threads
\* Text is typed and made bold on selections while it is read aloud and run:
\* the background threads take their steps between the events of the UI
\* thread, in every order.
MaxThreads == 2     \* SpecThreads: background threads alive at a time
MaxOutput == 2      \* SpecThreads: utterances and console chunks before a start

RoomForThread ==
    /\ Len(threads) < MaxThreads
    /\ Len(spoken) + Len(console) + Len(consoleQueue) < MaxOutput

NextThreads ==
    \/ RoomForStyleKey /\ KeyPress("x") /\ UNCHANGED pre
    \/ \E r \in SelRanges :
          RoomForRecord /\ ToggleFormatWithSel("bold", r[1], r[2])
          /\ UNCHANGED pre
    \/ \E r \in SelRanges :
          RoomForThread /\ ReadAloudWithSel(r[1], r[2]) /\ UNCHANGED pre
    \/ RoomForThread /\ ReadAloudNoSel /\ UNCHANGED pre
    \/ RoomForThread /\ RunThreaded /\ UNCHANGED pre
    \/ \E i \in 1..Len(threads) : Speak(i) /\ UNCHANGED pre
    \/ \E i \in 1..Len(threads), outcome \in {"out", "err", "exc"} :
          Exec(i, outcome) /\ UNCHANGED pre
    \/ \E i \in 1..Len(threads) : ExecErr(i) /\ UNCHANGED pre
    \/ ConsoleLoop /\ UNCHANGED pre

SpecThreads == Init /\ [][NextThreads]_vars

\* thread i has taken a step: it has ended, or moved on inside its method
ThreadStepped(i) ==
    \/ threads' = SubSeq(threads, 1, i - 1)
                     \o SubSeq(threads, i + 1, Len(threads))
    \/ threads' # threads /\ threads' = [threads EXCEPT ![i].pc = "err"]

\* C33: a step of a background thread changes nothing of the widget, of the
\* formatter or of the console; what the thread says, or queues for the
\* console, is made from the text it was started with.  That text is the
\* widget's text, or its selection, at the time the thread was started on
\* the UI thread.  The console changes only by the UI thread's own banner or
\* by taking over the whole queue.
C33_ThreadsWorkOnSnapshots ==
    [][/\ \A i \in 1..Len(threads) :
             ThreadStepped(i)
               => /\ UNCHANGED <<edVars, fmVars, histVars, idleQ, console>>
                  /\ threads[i].target = "_speak"
                       => /\ spoken' = Append(spoken, threads[i].args)
                          /\ UNCHANGED consoleQueue
                  /\ threads[i].target = "_exec"
                       => /\ UNCHANGED spoken
                          /\ \E stream \in {"out", "err", "exc"} :
                                consoleQueue' =
                                  Append(consoleQueue,
                                         [stream |-> stream,
                                          of |-> threads[i].args])
       /\ Len(threads') > Len(threads)
            => LET t == threads'[Len(threads')]
                   whole == TextOf(doc) \o <<"\n">>
               IN /\ threads' = Append(threads, t)
                  /\ UNCHANGED <<edVars, fmVars, histVars>>
                  /\ IF t.target = "_exec" THEN t.args = whole
                     ELSE \/ t.args = whole
                          \/ \E r \in SelRanges :
                                t.args = SubSeq(TextOf(doc), r[1] + 1, r[2])
       /\ console' # console
            => \/ /\ console' = console \o consoleQueue
                  /\ consoleQueue' = <<>>
                  /\ UNCHANGED threads
               \/ /\ console' = Append(console, RunningBanner)
                  /\ Len(threads') = Len(threads) + 1]_vars

\* a text was read aloud and a program's output shown after the widget's
\* text had changed: neither is the text the widget holds now
C33_Witness ==
    /\ spoken # <<>>
    /\ spoken[1] # TextOf(doc) \o <<"\n">>
    /\ \E k \in 1..Len(console) :
          /\ console[k].stream = "out"
          /\ console[k].of # TextOf(doc) \o <<"\n">>

\* ---------------------------------------------------- specification: redo
\* Text is typed, made bold and colored on selections, and undo and redo are
\* pressed, with up to two formatting records.
NextRedo ==
    \/ StillTyping /\ RoomForStyleKey /\ KeyPress("x") /\ UNCHANGED pre
    \/ \E r \in SelRanges :
          /\ Len(fmtUndo) < MaxRestoreHist
          /\ ToggleFormatWithSel("bold", r[1], r[2])
          /\ UNCHANGED pre
    \/ \E r \in SelRanges :
          /\ Len(fmtUndo) < MaxRestoreHist
          /\ ApplyColorWithSel("fg", "#ff0000", r[1], r[2])
          /\ UNCHANGED pre
    \/ UndoFormat /\ UNCHANGED pre
    \/ UndoText /\ UNCHANGED pre
    \/ RedoFormat /\ UNCHANGED pre
    \/ RedoText /\ UNCHANGED pre
    \/ RedoNothing /\ UNCHANGED pre

SpecRedo == Init /\ [][NextRedo]_vars

\* C34: a formatting redo re-applies the record that the undo pressed just
\* before it took off the undo stack, and no other; once it has run, and
\* until the next formatting undo, redo_format answers False, whatever the
\* redo stack holds, and redo goes to the text buffer, which touches neither
\* formatting stack.
C34_FormatRedoIsSingleLevel ==
    /\ [][/\ UndoFormat => fmtRedo'[Len(fmtRedo')] = fmtUndo[Len(fmtUndo)]
          /\ RedoFormat => /\ last = "undo_format"
                           /\ fmtUndo'[Len(fmtUndo')] = fmtRedo[Len(fmtRedo)]
                           /\ ~CanRedoFormat'
          /\ (last = "redo_format" /\ SafeRedo)
               => /\ RedoText \/ RedoNothing
                  /\ UNCHANGED <<fmtUndo, fmtRedo>>]_vars
    /\ [](last = "redo_format" => ~CanRedoFormat)

\* two formatting undos and one redo: one record is back on the undo stack,
\* the other is still on the redo stack
C34_Witness ==
    /\ last = "redo_format"
    /\ Len(fmtUndo) = 1
    /\ Len(fmtRedo) = 1

\* ---------------------------------------------- specification: undo scope
\* Text is typed and made bold on selections, commands that push no record
\* are given while a record is on the undo stack (Bold, a color and a font
\* size with nothing selected, line spacing), and undo is pressed.  The
\* session remembers the document as the last record-pushing command left it.
NextScope ==
    \/ RoomForStyleKey /\ KeyPress("x") /\ UNCHANGED pre
    \/ ApplyTypingToNewlyInserted /\ UNCHANGED pre
    \/ \E r \in SelRanges :
          /\ RoomForRecord
          /\ ToggleFormatWithSel("bold", r[1], r[2])
          /\ AfterRangeCommand(r[1], r[2])
    \/ fmtUndo # <<>> /\ ToggleFormatNoSel("bold") /\ UNCHANGED pre
    \/ fmtUndo # <<>> /\ ApplyColorNoSel /\ UNCHANGED pre
    \/ fmtUndo # <<>> /\ ApplyFontSizeNoSel(14) /\ UNCHANGED pre
    \/ \E v \in SessSpacings :
          fmtUndo # <<>> /\ SetLineSpacing(v) /\ UNCHANGED pre
    \/ UndoFormat /\ UNCHANGED pre

SpecScope == Init /\ [][NextScope]_vars

\* C35: undo_format reverts a record only while the text is still the text
\* the record's command left: no text edit has changed the document since,
\* whether or not a formatting command that pushes no record came after the
\* edit.
C35_UndoFormatOnlyWhenNoTextEditSince ==
    [][UndoFormat => (pre # NoPre /\ TextOf(doc) = TextOf(pre.after))]_vars

\* --------------------------------------------- specification: quiet keys
\* Typing, clicks, Bold with nothing selected, and keys that insert nothing:
\* caret keys and deleting keys.  A key is pressed only when the idle
\* callbacks of the keys before it have run.  The session remembers whether
\* the last key inserted nothing.
CaretKeys == {"Right", "Left", "Home", "End"}
DeleteKeys == {"BackSpace", "Delete"}

AfterQuietKey == pre' = [quiet |-> TRUE]

NextQuiet ==
    \/ Settled /\ RoomForStyleKey /\ RoomForPendingKey /\ KeyPress("x")
       /\ AfterOther
    \/ \E key \in CaretKeys : Settled /\ CaretKey(key) /\ AfterQuietKey
    \/ \E key \in DeleteKeys :
          Settled /\ RoomForPendingKey /\ DeleteKey(key) /\ AfterQuietKey
    \/ ApplyTypingToNewlyInserted /\ UNCHANGED pre
    \/ \E p \in 0..TextLen(doc) : Settled /\ MoveCaret(p) /\ UNCHANGED pre
    \/ Settled /\ ToggleFormatNoSel("bold") /\ UNCHANGED pre

SpecQuiet == Init /\ [][NextQuiet]_vars

\* C36: a caret key changes no tag, a deleting key leaves every remaining
\* character its tags, and the idle callback of such a key, run with a
\* pending typing style set, changes nothing in the document.
C36_QuietKeyKeepsStyles ==
    [][/\ (\E key \in CaretKeys : CaretKey(key)) => doc' = doc
       /\ \A key \in DeleteKeys :
             DeleteKey(key)
               => doc' = DeleteRange(doc, DeleteKeyRange(key)[1],
                                     DeleteKeyRange(key)[2])
       /\ (ApplyTypingToNewlyInserted /\ pre # NoPre /\ typingSpec # NoSpec)
            => doc' = doc]_vars

\* ------------------------------------------ specification: click then type
\* Bold is clicked with nothing selected and text is typed, the caret is
\* placed by clicks; each event waits for the idle callbacks of the keys
\* before it.  The session remembers the last click on Bold: the caret, the
\* style the click computed, and how many characters were typed since.
MaxClickLen == 3    \* SpecClick: characters of text

AfterClick(tag) ==
    pre' = [spec |-> FlipFlag(TypingBase, tag), at |-> caret, typed |-> 0]

AfterTyped == pre' = IF pre = NoPre THEN NoPre ELSE [pre EXCEPT !.typed = @ + 1]

NextClick ==
    \/ Settled /\ TextLen(doc) < MaxClickLen /\ KeyPress("x") /\ AfterTyped
    \/ ApplyTypingToNewlyInserted /\ UNCHANGED pre
    \/ \E p \in 0..TextLen(doc) : Settled /\ MoveCaret(p) /\ AfterOther
    \/ Settled /\ ToggleFormatNoSel("bold") /\ AfterClick("bold")

SpecClick == Init /\ [][NextClick]_vars

\* C37: once the idle callbacks have run, every character typed at the caret
\* since the last click on a style button resolves to the style that click
\* computed, the ambient default included.
C37_TypedTextHasClickedStyle ==
    (pre # NoPre /\ Settled)
      => \A k \in 0..(pre.typed - 1) :
            GetEffectiveSpecAt(St, Dflt, pre.at + k) = pre.spec

\* ------------------------------------------ specification: event ordering
\* Keys are typed and Bold and Italic are clicked with nothing selected, in
\* any order with the idle callbacks of the keys: a click or a second key
\* may be handled before the callback of a key has run.  The session
\* remembers the oldest key whose callback has not run yet: where its
\* character went and the pending style at that moment.
MaxRaceIdle == 2    \* SpecRace: queued idle callbacks

AfterOldestKey ==
    pre' = IF idleQ # <<>> THEN pre
           ELSE IF typingEnabled /\ typingSpec # NoSpec
           THEN [at |-> caret, spec |-> typingSpec] ELSE NoPre

NextRace ==
    \/ /\ TextLen(doc) < MaxStyleLen /\ Len(idleQ) < MaxRaceIdle
       /\ KeyPress("x") /\ AfterOldestKey
    \/ \E tag \in TypingFlags : ToggleFormatNoSel(tag) /\ UNCHANGED pre
    \/ ApplyTypingToNewlyInserted /\ AfterOther

SpecRace == Init /\ [][NextRace]_vars

\* C38: when the idle callback of a character typed under a pending style P
\* has run, the character carries the tag of P as its only combined-style
\* tag, whatever keys and clicks were handled in between.
C38_DeferredStyleIsStyleAtKeyPress ==
    [][(ApplyTypingToNewlyInserted /\ pre # NoPre)
         => {t \in TagsAt(doc', pre.at) : IsStyleTag(t)}
               = {TagOfSpec(pre.spec)}]_vars

\* ------------------------------------------------ specification: saving
\* Text and PDF files are opened, a character is typed, and the document is
\* saved, saved under every kind of path, and exported as PDF.
SaveTexts == {<<"t">>}

NextSave ==
    \/ \E content \in PdfTexts :
          RoomForOpen /\ OpenPdf(content) /\ UNCHANGED pre
    \/ \E content \in SaveTexts :
          RoomForOpen /\ OpenText(content) /\ UNCHANGED pre
    \/ RoomForOpen /\ OpenPwp /\ UNCHANGED pre
    \/ RoomForStyleKey /\ RoomForOpen /\ KeyPress("x") /\ UNCHANGED pre
    \/ \E path \in SavePaths \cup {Cancelled} :
          SaveFile(path) /\ UNCHANGED pre
    \/ \E path \in SavePaths \cup {Cancelled} :
          SaveAsFile(path) /\ UNCHANGED pre
    \/ ExportPdf /\ UNCHANGED pre

SpecSave == Init /\ [][NextSave]_vars

\* C39: while the document is a PDF import there is no current path; the
\* current path never has the extension .pdf; the file at the PDF path is
\* always a PDF document.  save_file on a PDF import does what Save As does
\* with the dialog's answer, a save under a .pdf path changes neither the
\* disk nor the current path, and only a PDF import marks the document as
\* one.
C39_PdfNeverOverwrittenWithText ==
    /\ [](/\ openedFromPdf => currentFilePath = "none"
          /\ currentFilePath = "none" \/ Ext(currentFilePath) # ".pdf"
          /\ pdfFile.format = "pdf")
    /\ [][\A path \in SavePaths \cup {Cancelled} :
            /\ (openedFromPdf /\ SaveFile(path)) => SaveAsFile(path)
            /\ (path = PdfPath /\ (SaveFile(path) \/ SaveAsFile(path)))
                 => UNCHANGED <<file, docx, txtFile, pdfFile, currentFilePath,
                                openedFromPdf>>
            /\ (openedFromPdf' /\ ~openedFromPdf)
                 => TextOf(doc') \in PdfTexts]_vars

\* a PDF was imported and saved as text: the text file holds the PDF's text,
\* the PDF is as it was
C39_Witness ==
    /\ ~openedFromPdf
    /\ currentFilePath = TxtPath
    /\ txtFile \in PdfTexts
    /\ pdfFile = SomePdf

====
